---- MODULE Spec2Model ----
(***************************************************************************)
(* A model of ml_export_wizard/utils/exporter.py: the SQL fragment merge   *)
(* (merge_sql_dicts), field lookup (Exporter.find_field), formula          *)
(* resolution (Exporter._resolve_formula), the rollup's inner request      *)
(* (ExporterRollup._sql_dict) and the Query Request with its cursor        *)
(* (ExporterQuery, ExporterQuery.Cursor).                                  *)
(*                                                                         *)
(* Python strings are TLA+ strings where only concatenation and equality   *)
(* are needed (the merge), and sequences of one-character strings where    *)
(* the code scans them (the formula resolver).                             *)
(***************************************************************************)
EXTENDS Integers, Sequences, FiniteSets, TLC

VARIABLES
    \* ---- merge_sql_dicts ----
    dict1, dict2, dict3,      \* operand objects [ref, val]
    merged12, merged21,       \* merge_sql_dicts(dict1, dict2), merge_sql_dicts(dict2, dict1)
    mergedL, mergedR,         \* (dict1 + dict2) + dict3 and dict1 + (dict2 + dict3)
    pcMerge,
    \* ---- Exporter.find_field ----
    exporter,                 \* the dataset whose catalogue is searched
    found,                    \* the last lookup: its arguments and its outcome
    \* ---- Exporter._resolve_formula ----
    formula, query_layer,     \* the inputs
    resolved,                 \* the outcome
    \* ---- ExporterQuery, ExporterQuery.Cursor, ExporterRollup._sql_dict ----
    heap,                     \* the mutable dicts and lists requests refer to
    query,                    \* the caller's Query Request
    cursors,                  \* the Cursor objects made for it
    last,                     \* the last operation on the request and its outcome
    executed,                 \* whether the backend has executed the request (history)
    rollup,                   \* the settings of a rollup
    rollup_query,             \* the request a rollup compiles its inner dataset with
    declared,                 \* the filters caller and rollup declared, as first given
    \* ---- setup_exporters, Exporter.final_sql and what it calls ----
    declarations,             \* settings.ML_EXPORT_WIZARD["Exporters"]
    exporters,                \* the registry of datasets, by name
    setup,                    \* the outcome of setup_exporters
    call,                     \* the arguments of the compile calls: dataset and query layer
    compiled                  \* the outcomes of the compile calls made so far

mergeVars == <<dict1, dict2, dict3, merged12, merged21, mergedL, mergedR, pcMerge>>

findVars == <<exporter, found>>
formulaVars == <<formula, query_layer, resolved>>

queryVars == <<heap, query, cursors, last, executed>>
rollupVars == <<rollup, rollup_query, declared>>

compileVars == <<declarations, exporters, setup, call, compiled>>

vars == <<mergeVars, findVars, formulaVars, queryVars, rollupVars, compileVars>>

(***************************************************************************)
(* Bounds                                                                  *)
(***************************************************************************)
\* number of distinct non-empty clause texts drawn
NumVals == 2
\* number of distinct field names a catalogue draws from
NumNames == 2
\* longest formula, in characters
MaxFormulaLen == 10
\* longest filter list a request or a rollup declares for one table
MaxFilters == 1
\* Cursor objects alive at once
MaxCursors == 2
\* compile calls made on one request
MaxCompiles == 2

(***************************************************************************)
(* Python values                                                           *)
(***************************************************************************)
\* Python's None where a dict is expected
NoneDict == [is_none |-> TRUE]

\* a result that has not been computed yet
Unset == [unset |-> TRUE]

\* Python truthiness of a str, as filter(None, ...) uses it (clause texts are str)
Truthy(v) == v # ""

\* sep.join(seq) for a sequence of strings
RECURSIVE StrJoin(_, _)
StrJoin(sep, seq) ==
    IF Len(seq) = 0 THEN ""
    ELSE IF Len(seq) = 1 THEN seq[1]
    ELSE seq[1] \o sep \o StrJoin(sep, Tail(seq))

\* sep.join(filter(None, seq))
JoinFilterNone(sep, seq) == StrJoin(sep, SelectSeq(seq, Truthy))

\* dict | dict: the right operand wins on a key collision
DictUnion(p1, p2) ==
    [k \in (DOMAIN p1) \cup (DOMAIN p2) |-> IF k \in DOMAIN p2 THEN p2[k] ELSE p1[k]]

(***************************************************************************)
(* Python values of a request: tagged, so that values of different types   *)
(* can be compared.  Dicts and lists that the code mutates in place live   *)
(* in the heap, a sequence of objects, and are referred to by index.       *)
(***************************************************************************)
PyNone == [t |-> "None"]
Absent == [t |-> "absent"]
PyBool(b) == [t |-> "bool", v |-> b]
PyInt(n) == [t |-> "int", v |-> n]
PyStr(str) == [t |-> "str", v |-> str]
PyList(items) == [t |-> "list", v |-> items]
PyDict(entries) == [t |-> "dict", v |-> entries]
PyRef(id) == [t |-> "ref", id |-> id]

\* bool(value) for the values a where_before_join can be: None, or a dict in the heap
DictTruthy(h, value) == value # PyNone /\ DOMAIN h[value.id].v # {}

\* utils.simple.listify: None gives [], a list is kept, anything else is wrapped
listify(value) ==
    IF value = PyNone THEN PyList(<<>>)
    ELSE IF value.t = "list" THEN value
    ELSE PyList(<<value>>)

(***************************************************************************)
(* merge_sql_dicts                                                         *)
(***************************************************************************)
MergersBadSeparator ==
    [select |-> ", ", select_no_table |-> ", ", from |-> " ",
     where |-> " AND ", group_by |-> ", ", having |-> ", "]

\* the clause keys and their separators
Mergers ==
    [select |-> ", ", select_no_table |-> ", ", from |-> " ",
     where |-> " AND ", group_by |-> ", ", having |-> " AND "]

\* a mutant that forgets filter(None, ...) when both operands hold the key
MergeClauseNoFilter(key, value, d1, d2) ==
    IF key \notin DOMAIN d1 /\ key \notin DOMAIN d2 THEN ""
    ELSE IF key \in DOMAIN d1 /\ key \notin DOMAIN d2 THEN d1[key]
    ELSE IF key \in DOMAIN d2 /\ key \notin DOMAIN d1 THEN d2[key]
    ELSE StrJoin(value, <<d1[key], d2[key]>>)

\* a mutant that drops a clause only the second operand holds
MergeClauseDropsSecond(key, value, d1, d2) ==
    IF key \notin DOMAIN d1 /\ key \notin DOMAIN d2 THEN ""
    ELSE IF key \in DOMAIN d1 /\ key \notin DOMAIN d2 THEN d1[key]
    ELSE IF key \in DOMAIN d2 /\ key \notin DOMAIN d1 THEN ""
    ELSE JoinFilterNone(value, <<d1[key], d2[key]>>)

\* one pass of the loop over mergers.items()
MergeClause(key, value, d1, d2) ==
    IF key \notin DOMAIN d1 /\ key \notin DOMAIN d2 THEN ""
    ELSE IF key \in DOMAIN d1 /\ key \notin DOMAIN d2 THEN d1[key]
    ELSE IF key \in DOMAIN d2 /\ key \notin DOMAIN d1 THEN d2[key]
    ELSE JoinFilterNone(value, <<d1[key], d2[key]>>)

\* the "parameters" entry of the merged dict
MergeParameters(d1, d2) ==
    IF "parameters" \notin DOMAIN d1 /\ "parameters" \notin DOMAIN d2 THEN <<>>
    ELSE IF "parameters" \in DOMAIN d1 /\ "parameters" \notin DOMAIN d2 THEN d1["parameters"]
    ELSE IF "parameters" \in DOMAIN d2 /\ "parameters" \notin DOMAIN d1 THEN d2["parameters"]
    ELSE DictUnion(d1["parameters"], d2["parameters"])

\* a mutant that returns the operand itself
DictCopyAlias(o, newref) == o

\* dict.copy(): a new object with the same entries
DictCopy(o, newref) == [ref |-> newref, val |-> o.val]

NoneObj == [ref |-> "None", val |-> NoneDict]

\* merge_sql_dicts(dict1, dict2); newref is the identity of the dict it creates
merge_sql_dicts(o1, o2, newref) ==
    IF o1.val = NoneDict /\ o2.val = NoneDict THEN NoneObj
    ELSE IF o1.val # NoneDict /\ o2.val = NoneDict THEN DictCopy(o1, newref)
    ELSE IF o1.val = NoneDict /\ o2.val # NoneDict THEN DictCopy(o2, newref)
    ELSE [ref |-> newref,
          val |-> [key \in (DOMAIN Mergers) \cup {"parameters"} |->
                     IF key = "parameters" THEN MergeParameters(o1.val, o2.val)
                     ELSE MergeClause(key, Mergers[key], o1.val, o2.val)]]

(***************************************************************************)
(* Inputs of the merge                                                     *)
(***************************************************************************)
ValNames == <<"a", "b", "c", "d">>
ClauseVals == {""} \cup {ValNames[i] : i \in 1..NumVals}
ParamNames == {"p", "q"}
ParamValues == {1, 2}
ParamMaps == UNION {[S -> ParamValues] : S \in SUBSET ParamNames}

\* the fixtures of tests.py
TestDict1 ==
    [select |-> "one as one_thing", select_no_table |-> "", from |-> "test1 as test_table_1",
     where |-> "thing1 = 1", group_by |-> "thing1", having |-> "count(thing1) = 11",
     parameters |-> <<>>]
TestDict2 ==
    [select |-> "two as two_thing", select_no_table |-> "", from |-> "test2 as test_table_2",
     where |-> "thing2 = 2", group_by |-> "thing2", having |-> "count(thing2) = 22",
     parameters |-> <<>>]

\* fragments as the compiler builds them: a few clause keys, with or without parameters
Fragments ==
    {<<>>, TestDict1, TestDict2}
    \cup UNION {[{k} -> ClauseVals] : k \in DOMAIN Mergers}
    \cup [{"select", "where"} -> ClauseVals]
    \cup {[parameters |-> p] : p \in ParamMaps}
    \cup {[from |-> v, parameters |-> p] : v \in ClauseVals \ {""}, p \in ParamMaps \ {<<>>}}

FragmentsOrNone == Fragments \cup {NoneDict}

MergeInit ==
    /\ dict1 \in {[ref |-> "dict1", val |-> v] : v \in FragmentsOrNone}
    /\ dict2 \in {[ref |-> "dict2", val |-> v] : v \in FragmentsOrNone}
    /\ dict3 = Unset
    /\ merged12 = Unset /\ merged21 = Unset
    /\ mergedL = Unset /\ mergedR = Unset
    /\ pcMerge = "start"

\* dict3 = merge_sql_dicts(dict1, dict2), in both operand orders
MergePair ==
    /\ pcMerge = "start"
    /\ merged12' = merge_sql_dicts(dict1, dict2, "new")
    /\ merged21' = merge_sql_dicts(dict2, dict1, "new")
    /\ pcMerge' = "merged"
    /\ UNCHANGED <<dict1, dict2, dict3, mergedL, mergedR, findVars, formulaVars, queryVars, rollupVars, compileVars>>

\* folding three fragments, grouped to the left and to the right
MergeTriple ==
    /\ pcMerge = "merged"
    /\ \E v \in FragmentsOrNone :
        LET o3 == [ref |-> "dict3", val |-> v] IN
        /\ dict3' = o3
        /\ mergedL' = merge_sql_dicts(merge_sql_dicts(dict1, dict2, "tmp"), o3, "new")
        /\ mergedR' = merge_sql_dicts(dict1, merge_sql_dicts(dict2, o3, "tmp"), "new")
    /\ pcMerge' = "folded"
    /\ UNCHANGED <<dict1, dict2, merged12, merged21, findVars, formulaVars, queryVars, rollupVars, compileVars>>

MergeIdle ==
    /\ dict1 = Unset /\ dict2 = Unset /\ dict3 = Unset
    /\ merged12 = Unset /\ merged21 = Unset /\ mergedL = Unset /\ mergedR = Unset
    /\ pcMerge = "idle"

(***************************************************************************)
(* The field catalogue and Exporter.find_field                             *)
(*                                                                         *)
(* A dataset is [name, fields_by_name, apps, rollups]; an app is           *)
(* [name, models]; a model is [name, table, fields]; a rollup is           *)
(* [name, fields_by_name].  fields_by_name maps a name to a field object   *)
(* [kind, table, name, column].  A lookup's app and model are strings, ''  *)
(* standing for None; its field is the sequence of the segments between    *)
(* the dots of the string, <<>> standing for None.                         *)
(***************************************************************************)
ExporterField(table, name, column) ==
    [kind |-> "ExporterField", table |-> table, name |-> name, column |-> column]

ExporterPseudofield(parent, name) ==
    [kind |-> "ExporterPseudofield", table |-> parent, name |-> name, column |-> name]

FieldNotFound == [raised |-> "MLExportWizardFieldNotFound"]
Returned(value) == [raised |-> "", value |-> value]

\* model.fields_by_name
ModelFieldsByName(model) ==
    [n \in {model.fields[i].name : i \in DOMAIN model.fields} |->
        (CHOOSE f \in {model.fields[i] : i \in DOMAIN model.fields} : f.name = n)]

\* ExporterApp._get_field: the models of the app that hold the name, in order
RECURSIVE AppGetField(_, _)
AppGetField(models, field) ==
    IF models = <<>> THEN <<>>
    ELSE (IF field \in DOMAIN ModelFieldsByName(Head(models))
          THEN <<ModelFieldsByName(Head(models))[field]>> ELSE <<>>)
         \o AppGetField(Tail(models), field)

\* ExporterRollup._get_field
RollupGetField(self, field) ==
    IF field \in DOMAIN self.fields_by_name THEN <<self.fields_by_name[field]>> ELSE <<>>

\* fields += app._get_field(field=field) over self.apps
RECURSIVE AppsGetField(_, _)
AppsGetField(apps, field) ==
    IF apps = <<>> THEN <<>>
    ELSE AppGetField(Head(apps).models, field) \o AppsGetField(Tail(apps), field)

\* fields += rollup._get_field(field=field) over self.rollups
RECURSIVE RollupsGetField(_, _)
RollupsGetField(rollups, field) ==
    IF rollups = <<>> THEN <<>>
    ELSE RollupGetField(Head(rollups), field) \o RollupsGetField(Tail(rollups), field)

\* the app.model.field branch: any missing key raises
FindQualified(self, app, model, field) ==
    LET apps == {self.apps[i] : i \in DOMAIN self.apps}
        app_objects == {a \in apps : a.name = app}
    IN  IF app_objects = {} THEN FieldNotFound
        ELSE LET app_object == CHOOSE a \in app_objects : TRUE
                 model_objects == {app_object.models[i] : i \in DOMAIN app_object.models}
                 named == {m \in model_objects : m.name = model}
             IN  IF named = {} THEN FieldNotFound
                 ELSE LET fields_by_name == ModelFieldsByName(CHOOSE m \in named : TRUE)
                      IN  IF field \in DOMAIN fields_by_name
                          THEN Returned(fields_by_name[field])
                          ELSE FieldNotFound

\* the list of matches of an unqualified name
UnqualifiedMatches(self, field) ==
    (IF field \in DOMAIN self.fields_by_name THEN <<self.fields_by_name[field]>> ELSE <<>>)
    \o AppsGetField(self.apps, field)
    \o RollupsGetField(self.rollups, field)

\* a mutant that returns the first match of an ambiguous name
FindUnqualifiedFirstMatch(self, field) ==
    LET fields == UnqualifiedMatches(self, field)
    IN  IF Len(fields) = 0 THEN FieldNotFound ELSE Returned(fields[1])

\* the unqualified branch
FindUnqualified(self, field) ==
    LET fields == UnqualifiedMatches(self, field)
    IN  IF Len(fields) = 0 THEN FieldNotFound
        ELSE IF Len(fields) = 1 THEN Returned(fields[1])
        ELSE FieldNotFound

\* Exporter.find_field(app, model, field)
find_field(self, app, model, field) ==
    LET dotted == field # <<>> /\ app = "" /\ model = "" /\ Len(field) = 3
        app_   == IF dotted THEN field[1] ELSE app
        model_ == IF dotted THEN field[2] ELSE model
        field_ == IF dotted THEN <<field[3]>> ELSE field
    IN  IF app_ # "" /\ model_ # "" /\ field_ # <<>>
        THEN FindQualified(self, app_, model_, StrJoin(".", field_))
        ELSE IF field_ # <<>> THEN FindUnqualified(self, StrJoin(".", field_))
        ELSE FieldNotFound

(***************************************************************************)
(* Catalogues and lookups drawn for find_field                             *)
(***************************************************************************)
FieldNameList == <<"f", "g", "h", "k">>
FieldNames == {FieldNameList[i] : i \in 1..NumNames}

\* the fields of a table, in declaration order
RECURSIVE FieldsOf(_, _, _)
FieldsOf(table, names, i) ==
    IF i > Len(FieldNameList) THEN <<>>
    ELSE (IF FieldNameList[i] \in names
          THEN <<ExporterField(table, FieldNameList[i], FieldNameList[i])>> ELSE <<>>)
         \o FieldsOf(table, names, i + 1)

PseudofieldsOf(parent, names) == [n \in names |-> ExporterPseudofield(parent, n)]

\* a dataset with two apps (A1 with two tables, A2 with one) and one rollup
Catalogue(own, m1, m2, m3, r1) ==
    [name |-> "Export",
     fields_by_name |-> PseudofieldsOf("Export", own),
     apps |-> << [name |-> "A1",
                  models |-> << [name |-> "M1", table |-> "a1_m1", fields |-> FieldsOf("a1_m1", m1, 1)],
                                [name |-> "M2", table |-> "a1_m2", fields |-> FieldsOf("a1_m2", m2, 1)] >>],
                 [name |-> "A2",
                  models |-> << [name |-> "M3", table |-> "a2_m3", fields |-> FieldsOf("a2_m3", m3, 1)] >>] >>,
     rollups |-> << [name |-> "R1", fields_by_name |-> PseudofieldsOf("R1", r1)] >>]

Catalogues ==
    {Catalogue(own, m1, m2, m3, r1) :
        own \in SUBSET {FieldNameList[1]}, m1 \in SUBSET FieldNames, m2 \in SUBSET FieldNames,
        m3 \in SUBSET {FieldNameList[1]}, r1 \in SUBSET FieldNames}

LookupApps == {"", "A1", "A2", "Ax"}
LookupModels == {"", "M1", "M3", "Mx"}
LookupFields ==
    {<<>>, <<"zz">>, <<"M1", "f">>, <<"A1", "M1", "f">>, <<"A1", "Mx", "f">>, <<"Ax", "M1", "f">>,
     <<"A2", "M3", "g">>}
    \cup {<<n>> : n \in FieldNames}

FindInit ==
    /\ exporter \in Catalogues
    /\ found = Unset

\* one call of exporter.find_field(app=..., model=..., field=...)
FindField ==
    /\ found = Unset
    /\ \E app \in LookupApps, model \in LookupModels, field \in LookupFields :
        found' = [app |-> app, model |-> model, field |-> field,
                  result |-> find_field(exporter, app, model, field)]
    /\ UNCHANGED <<exporter, mergeVars, formulaVars, queryVars, rollupVars, compileVars>>

FindIdle == exporter = Unset /\ found = Unset

(***************************************************************************)
(* ExporterField.column, ExporterPseudofield.column                        *)
(* A query layer is a string, '' standing for None.                        *)
(***************************************************************************)
column(field, layer) ==
    IF field.kind = "ExporterPseudofield" THEN field.name
    ELSE IF layer = "base" THEN field.table \o "." \o field.column
    ELSE IF layer = "inner" THEN field.column \o " AS " \o field.table \o "_" \o field.column
    ELSE IF layer = "middle" THEN field.table \o "_" \o field.column
    ELSE IF layer = "outer" THEN field.table \o "_" \o field.column \o " as " \o field.column
    ELSE field.column

(***************************************************************************)
(* Exporter._resolve_formula                                               *)
(*                                                                         *)
(* A formula is a sequence of pieces: each character of the input is one   *)
(* piece, and a column text put in by a replacement is one piece.  The     *)
(* text of a formula is the concatenation of its pieces.  A column text    *)
(* has no double quote, and every token the code searches for starts with  *)
(* one, so searching by pieces finds what searching by characters finds.   *)
(* <<>> stands for None and for ''.                                        *)
(***************************************************************************)
Quote == "\""

\* the text of a sequence of pieces
Text(pieces) == StrJoin("", pieces)

\* index of the first double quote of s at or after from, 0 when there is none
NextQuote(s, from) ==
    IF \E i \in from..Len(s) : s[i] = Quote
    THEN CHOOSE i \in from..Len(s) : s[i] = Quote /\ \A j \in from..(i - 1) : s[j] # Quote
    ELSE 0

\* re.finditer('".*?"', s): the matches, left to right, not overlapping
\* (the inputs hold no newline, the one character '.' does not match)
RECURSIVE FindIter(_)
FindIter(s) ==
    LET i == NextQuote(s, 1)
        j == IF i = 0 THEN 0 ELSE NextQuote(s, i + 1)
    IN  IF i = 0 \/ j = 0 THEN <<>>
        ELSE <<SubSeq(s, i, j)>> \o FindIter(SubSeq(s, j + 1, Len(s)))

\* str.replace(old, new): every occurrence, leftmost first, not overlapping
RECURSIVE StrReplace(_, _, _)
StrReplace(s, old, new) ==
    IF Len(s) < Len(old) THEN s
    ELSE IF SubSeq(s, 1, Len(old)) = old
         THEN new \o StrReplace(SubSeq(s, Len(old) + 1, Len(s)), old, new)
         ELSE <<Head(s)>> \o StrReplace(Tail(s), old, new)

\* field.group().replace('"', ""), as the field argument of find_field
TokenField(token) ==
    LET name == SelectSeq(token, LAMBDA c : c # Quote)
    IN  IF name = <<>> THEN <<>> ELSE <<Text(name)>>

ValueError == [raised |-> "ValueError"]
ReturnedNone == [raised |-> "", none |-> TRUE]

\* the loop over the matches: each replaces its text everywhere in the formula so far
RECURSIVE ResolveTokens(_, _, _, _)
ResolveTokens(self, tokens, current, layer) ==
    IF tokens = <<>> THEN Returned(current)
    ELSE LET r == find_field(self, "", "", TokenField(Head(tokens)))
         IN  IF r.raised # "" THEN r
             ELSE ResolveTokens(self, Tail(tokens),
                                StrReplace(current, Head(tokens), <<column(r.value, layer)>>),
                                layer)

\* Exporter._resolve_formula(formula, query_layer)
_resolve_formula(self, formula_, layer) ==
    IF formula_ = <<>> THEN ReturnedNone
    ELSE IF layer # "" /\ layer \notin {"base", "middle"} THEN ValueError
    ELSE ResolveTokens(self, FindIter(formula_), formula_, layer)

(***************************************************************************)
(* Formulas drawn for _resolve_formula                                     *)
(***************************************************************************)
\* the dataset of the formula checks: one table t with the columns a and b
FormulaExporter ==
    [name |-> "Integrations",
     fields_by_name |-> <<>>,
     apps |-> << [name |-> "app",
                  models |-> << [name |-> "T", table |-> "t",
                                 fields |-> <<ExporterField("t", "a", "a"),
                                              ExporterField("t", "b", "b")>>] >>] >>,
     rollups |-> <<>>]

FormulaAlphabet == {Quote, "a", "b"}
ShortFormulaLen == 3

StringsUpTo(n) == UNION {[1..k -> FormulaAlphabet] : k \in 0..n}

\* the shapes of the formulas of tests.py, and a formula of three tokens
NamedFormulas ==
    { <<"t", "e", "s", "t">>,
      <<"t", "e", "s", "t", "(", Quote, "a", Quote, ")">>,
      <<"t", "e", "s", "t", "(", Quote, "b", "a", "d", Quote, ")">>,
      <<Quote, "a", Quote, Quote, "b", Quote, "a", Quote, "b", Quote>> }

QueryLayers == {"", "base", "middle", "inner", "outer", "bad"}
FormulaLayers == {"", "base", "middle"}

FormulaInit ==
    /\ exporter = FormulaExporter
    /\ found = Unset
    /\ \/ /\ query_layer \in FormulaLayers
          /\ formula \in StringsUpTo(MaxFormulaLen) \cup NamedFormulas
       \/ /\ query_layer \in QueryLayers \ FormulaLayers
          /\ formula \in StringsUpTo(ShortFormulaLen) \cup NamedFormulas
    /\ resolved = Unset

\* one call of exporter._resolve_formula(formula=..., query_layer=...)
ResolveFormula ==
    /\ resolved = Unset
    /\ resolved' = _resolve_formula(exporter, formula, query_layer)
    /\ UNCHANGED <<exporter, found, formula, query_layer, mergeVars, queryVars, rollupVars, compileVars>>

FormulaIdle == formula = <<>> /\ query_layer = "" /\ resolved = Unset

(***************************************************************************)
(* ExporterQuery: the Query Request                                        *)
(***************************************************************************)
\* self._cursor = None: no Cursor object
NoCursor == 0

\* ExporterQuery.__init__
ExporterQuery(exporter_, count, group_by, where_before_join, where, extra_field, order_by, limit) ==
    [_exporter |-> exporter_,
     _where_before_join |-> where_before_join,
     _limit |-> limit,
     _count |-> count,
     _group_by |-> listify(group_by),
     _where |-> listify(where),
     _extra_field |-> listify(extra_field),
     _order_by |-> listify(order_by),
     _cursor |-> NoCursor,
     _is_executing |-> FALSE,
     \* attributes that exist only once something assigns them
     is_executing |-> Absent,
     offset |-> Absent]

\* the attributes whose setters pass the value through listify
ListAttributes == {"_group_by", "_where", "_extra_field", "_order_by"}
SetterAttributes ==
    {"_exporter", "_where_before_join", "_limit", "_count"} \cup ListAttributes

QueryExecuting == "MLExportWizardQueryExecuting"

\* a mutant that never refuses an update
is_update_safe_always(q) == TRUE

\* ExporterQuery.is_update_safe: FALSE stands for raising MLExportWizardQueryExecuting
is_update_safe(q) == ~q._is_executing

\* a property setter: is_update_safe(), then the assignment
PropertySet(q, name, value) ==
    IF ~is_update_safe(q) THEN [raised |-> QueryExecuting, query |-> q]
    ELSE [raised |-> "",
          query |-> [q EXCEPT ![name] = IF name \in ListAttributes THEN listify(value) ELSE value]]

(***************************************************************************)
(* ExporterRollup._sql_dict: the request of the inner compilation          *)
(*                                                                         *)
(* A where_before_join is None or a reference to a dict in the heap whose  *)
(* values are references to lists in the heap.                             *)
(***************************************************************************)
Tables == {"T1", "T2"}
TableOrder == <<"T1", "T2", "T3", "Orders">>

\* the keys of a dict, in insertion order
KeysInOrder(keys) == SelectSeq(TableOrder, LAMBDA t : t \in keys)

\* position of a key in a sequence of distinct keys
IndexIn(seq, k) == CHOOSE i \in DOMAIN seq : seq[i] = k

\* put a dict of lists (given by value) into the heap: its lists, then the dict
StoreDict(h, d) ==
    LET keys == KeysInOrder(DOMAIN d)
        lists == [i \in 1..Len(keys) |-> PyList(d[keys[i]])]
        entries == [k \in DOMAIN d |-> PyRef(Len(h) + IndexIn(keys, k))]
    IN  [heap |-> (h \o lists) \o <<PyDict(entries)>>,
         ref |-> PyRef(Len(h) + Len(keys) + 1)]

\* the value of a where_before_join: table -> list of filters
LoadDict(h, ref) == [k \in DOMAIN h[ref.id].v |-> h[h[ref.id].v[k].id].v]

\* the filters a where_before_join holds for a table
FiltersFor(h, wbj, table) ==
    IF wbj = PyNone THEN <<>>
    ELSE IF table \notin DOMAIN h[wbj.id].v THEN <<>>
    ELSE h[h[wbj.id].v[table].id].v

\* a mutant that copies the request and its where_before_join dict, and shares
\* the filter lists the dict refers to
DeepCopyShallow(h, q) ==
    IF q._where_before_join = PyNone THEN [heap |-> h, query |-> q]
    ELSE [heap |-> Append(h, h[q._where_before_join.id]),
          query |-> [q EXCEPT !._where_before_join = PyRef(Len(h) + 1)]]

\* copy.deepcopy(query): the request and every dict and list it refers to
DeepCopy(h, q) ==
    IF q._where_before_join = PyNone THEN [heap |-> h, query |-> q]
    ELSE LET stored == StoreDict(h, LoadDict(h, q._where_before_join))
         IN  [heap |-> stored.heap, query |-> [q EXCEPT !._where_before_join = stored.ref]]

\* a mutant in which the rollup's list replaces the caller's
ExtendTableReplaces(h, target, source, table_name) ==
    [h EXCEPT ![target].v =
        [k \in (DOMAIN h[target].v) \cup {table_name} |->
            IF k = table_name THEN h[source].v[table_name] ELSE h[target].v[k]]]

\* one pass of the loop over where_before_join.items()
ExtendTable(h, target, source, table_name) ==
    LET where_bits == h[source].v[table_name]
    IN  IF table_name \in DOMAIN h[target].v
        THEN [h EXCEPT ![h[target].v[table_name].id].v = @ \o h[where_bits.id].v]
        ELSE [h EXCEPT ![target].v =
                [k \in (DOMAIN h[target].v) \cup {table_name} |->
                    IF k = table_name THEN where_bits ELSE h[target].v[k]]]

RECURSIVE ExtendTables(_, _, _, _)
ExtendTables(h, target, source, table_names) ==
    IF table_names = <<>> THEN h
    ELSE ExtendTables(ExtendTable(h, target, source, Head(table_names)),
                      target, source, Tail(table_names))

\* settings.get(key)
SettingsGet(settings, key) == IF key \in DOMAIN settings THEN settings[key] ELSE PyNone

\* the assignments after the merge: each goes through its property setter
RollupOverrides(q, settings) ==
    LET q1 == PropertySet(q, "_group_by", listify(SettingsGet(settings, "group_by"))).query
        q2 == PropertySet(q1, "_extra_field", listify(SettingsGet(settings, "extra_field"))).query
        q3 == PropertySet(q2, "_order_by", PyList(<<>>)).query
        q4 == PropertySet(q3, "_where", PyNone).query
        q5 == PropertySet(q4, "_limit", PyNone).query
    IN  [q5 EXCEPT !.offset = PyNone]

\* ExporterRollup._sql_dict up to the call of final_sql:
\* [raised, heap, query], query being the request handed to the inner final_sql
RollupRequest(h, q, settings) ==
    LET copied == DeepCopy(h, q)
        rq == copied.query
    IN  IF "where_before_join" \in DOMAIN settings /\ ~DictTruthy(copied.heap, rq._where_before_join)
        THEN LET set == PropertySet(rq, "_where_before_join", settings["where_before_join"])
             IN  IF set.raised # "" THEN [raised |-> set.raised, heap |-> copied.heap, query |-> rq]
                 ELSE [raised |-> "", heap |-> copied.heap, query |-> RollupOverrides(set.query, settings)]
        ELSE LET h2 == IF "where_before_join" \in DOMAIN settings
                       THEN ExtendTables(copied.heap, rq._where_before_join.id,
                                         settings["where_before_join"].id,
                                         KeysInOrder(DOMAIN copied.heap[settings["where_before_join"].id].v))
                       ELSE copied.heap
             IN  IF ~is_update_safe(rq) THEN [raised |-> QueryExecuting, heap |-> h2, query |-> rq]
                 ELSE [raised |-> "", heap |-> h2, query |-> RollupOverrides(rq, settings)]

(***************************************************************************)
(* Requests and rollups drawn for ExporterRollup._sql_dict                 *)
(***************************************************************************)
CallerFilters == {[field |-> "f", value |-> 1], [field |-> "g", value |-> 2]}
RollupFilters == {[field |-> "f", value |-> 9]}

SeqsUpTo(S, n) == UNION {[1..k -> S] : k \in 0..n}
FilterDicts(filters) == UNION {[S -> SeqsUpTo(filters, MaxFilters)] : S \in SUBSET Tables}

\* a list-valued attribute of the caller: empty, or one item
CallerLists(item) == {PyNone, PyStr(item)}

RollupInit ==
    \E cw \in {PyNone} \cup FilterDicts(CallerFilters),
       rw \in {Absent} \cup FilterDicts(RollupFilters),
       group_by \in CallerLists("f"), where \in {PyNone, PyDict([field |-> "f", value |-> 5])},
       order_by \in CallerLists("g"), extra_field \in {PyNone, PyDict([function |-> "count"])},
       limit \in {PyNone, PyInt(10)},
       rollup_group_by \in {Absent, PyList(<<PyStr("f")>>), PyList(<<PyStr("f"), PyStr("g")>>)},
       rollup_extra_field \in {Absent, PyList(<<PyDict([function |-> "sum", column_name |-> "total"])>>)} :
        LET c == IF cw = PyNone THEN [heap |-> <<>>, ref |-> PyNone] ELSE StoreDict(<<>>, cw)
            r == IF rw = Absent THEN [heap |-> c.heap, ref |-> Absent] ELSE StoreDict(c.heap, rw)
            keys == (IF rw = Absent THEN {} ELSE {"where_before_join"})
                    \cup (IF rollup_group_by = Absent THEN {} ELSE {"group_by"})
                    \cup (IF rollup_extra_field = Absent THEN {} ELSE {"extra_field"})
        IN  /\ heap = r.heap
            /\ query = ExporterQuery("Export", PyNone, group_by, c.ref, where, extra_field, order_by, limit)
            /\ rollup = [name |-> "R1", exporter |-> "Inner",
                         settings |-> [k \in keys |->
                                         IF k = "where_before_join" THEN r.ref
                                         ELSE IF k = "group_by" THEN rollup_group_by
                                         ELSE rollup_extra_field]]
            /\ declared = [caller |-> cw, rollup |-> rw]
    /\ rollup_query = Unset
    /\ cursors = <<>>
    /\ last = Unset
    /\ executed = FALSE

\* rollup._sql_dict(query=query): the request it compiles the inner dataset with
RollupSqlDict ==
    /\ rollup_query = Unset
    /\ LET r == RollupRequest(heap, query, rollup.settings)
       IN  /\ heap' = r.heap
           /\ rollup_query' = [raised |-> r.raised, query |-> r.query]
    /\ UNCHANGED <<query, cursors, last, executed, rollup, declared, mergeVars, findVars, formulaVars, compileVars>>

(***************************************************************************)
(* ExporterQuery.Cursor and the operations on a request                    *)
(*                                                                         *)
(* A Cursor object is [phase, _query, _cursor]: phase "free" (no such      *)
(* object), "open" (__enter__ returned, __exit__ has not run) or "failed"  *)
(* (__enter__ raised, so __exit__ never runs); _cursor is the backend      *)
(* cursor: "None", "unexecuted", "executed" or "closed".                   *)
(***************************************************************************)
CursorIds == 1..MaxCursors
FreeCursor == [phase |-> "free", _query |-> "None", _cursor |-> "None"]

AnyCursorOpen(cs) == \E c \in DOMAIN cs : cs[c].phase = "open"

\* the datasets a request can be bound to
ExporterNamed(name) ==
    IF name = "Export" THEN Catalogue({}, {"f", "g"}, {}, {}, {})
    ELSE Catalogue({}, {"f"}, {"f"}, {}, {})

\* the unqualified field names final_sql looks up for a request:
\* its group_by, order_by and where items
LookedUpFields(q) ==
    {q._group_by.v[i].v : i \in DOMAIN q._group_by.v}
    \cup {q._order_by.v[i].v : i \in DOMAIN q._order_by.v}
    \cup {q._where.v[i].v["field"] : i \in DOMAIN q._where.v}

\* whether Exporter.final_sql(query) raises: a find_field of it raises
FinalSqlRaises(q) ==
    \E name \in LookedUpFields(q) :
        find_field(ExporterNamed(q._exporter), "", "", <<name>>).raised # ""

\* a Cursor object nothing refers to any more is gone
Collect(cs, q) ==
    [c \in DOMAIN cs |-> IF cs[c].phase # "open" /\ q._cursor # c THEN FreeCursor ELSE cs[c]]

\* Cursor.__init__
CursorInit(q, c) ==
    [query |-> [q EXCEPT !._cursor = c],
     cursor |-> [phase |-> "free", _query |-> "query", _cursor |-> "None"]]

\* Cursor.__enter__ on a request whose final_sql returns; executes tells whether
\* the backend's execute returns
CursorEnter(q, cursor, executes) ==
    [query |-> [q EXCEPT !.is_executing = PyBool(TRUE)],
     cursor |-> [cursor EXCEPT !.phase = IF executes THEN "open" ELSE "failed",
                               !._cursor = IF executes THEN "executed" ELSE "unexecuted"]]

\* Cursor.__exit__
CursorExit(q, cursor) ==
    [query |-> [q EXCEPT !._cursor = NoCursor, !.is_executing = PyBool(FALSE)],
     cursor |-> [cursor EXCEPT !.phase = "free", !._query = "None", !._cursor = "closed"]]

\* the values the setters are given, per attribute
SetterValues(name) ==
    IF name = "_exporter" THEN <<"Export", "Other">>
    ELSE IF name = "_where_before_join" THEN <<PyNone, PyRef(2)>>
    ELSE IF name = "_limit" THEN <<PyNone, PyInt(10)>>
    ELSE IF name = "_count" THEN <<PyNone, PyStr("f")>>
    ELSE IF name = "_group_by" THEN <<PyNone, PyStr("f"), PyList(<<PyStr("zz")>>)>>
    ELSE IF name = "_where" THEN <<PyNone, PyDict([field |-> "f", value |-> 5])>>
    ELSE IF name = "_extra_field" THEN <<PyNone, PyDict([function |-> "count"])>>
    ELSE <<PyNone, PyStr("g")>>

QueryInit ==
    /\ heap = StoreDict(<<>>, [T1 |-> <<[field |-> "f", value |-> 1]>>]).heap
    /\ query = ExporterQuery("Export", PyNone, PyNone, PyNone, PyNone, PyNone, PyNone, PyNone)
    /\ cursors = [c \in CursorIds |-> FreeCursor]
    /\ last = [op |-> "init"]
    /\ executed = FALSE

\* query.<attribute> = value
Set(name, value) ==
    LET r == PropertySet(query, name, value)
    IN  /\ query' = r.query
        /\ last' = [op |-> "set", raised |-> r.raised]
        /\ UNCHANGED <<heap, cursors, executed, rollupVars, mergeVars, findVars, formulaVars, compileVars>>

\* with query.cursor() as cursor: Cursor.__init__, then Cursor.__enter__
WithEnter(c, executes) ==
    /\ cursors[c].phase = "free"
    /\ LET made == CursorInit(query, c)
           entered == CursorEnter(made.query, made.cursor, executes)
       IN  IF FinalSqlRaises(made.query)
           THEN /\ query' = made.query
                /\ cursors' = Collect([cursors EXCEPT ![c] = [made.cursor EXCEPT !.phase = "failed"]],
                                      made.query)
                /\ last' = [op |-> "enter", raised |-> "MLExportWizardFieldNotFound"]
           ELSE /\ query' = entered.query
                /\ cursors' = Collect([cursors EXCEPT ![c] = entered.cursor], entered.query)
                /\ last' = [op |-> "enter", raised |-> IF executes THEN "" ELSE "DatabaseError"]
    /\ executed' = (executed \/ (~FinalSqlRaises(CursorInit(query, c).query) /\ executes))
    /\ UNCHANGED <<heap, rollupVars, mergeVars, findVars, formulaVars, compileVars>>

\* the end of the with block, reached normally or by an exception of the body
WithExit(c, body_raised) ==
    /\ cursors[c].phase = "open"
    /\ LET r == CursorExit(query, cursors[c])
       IN  /\ query' = r.query
           /\ cursors' = Collect([cursors EXCEPT ![c] = r.cursor], r.query)
    /\ last' = [op |-> "exit", raised |-> IF body_raised THEN "body" ELSE ""]
    /\ UNCHANGED <<heap, executed, rollupVars, mergeVars, findVars, formulaVars, compileVars>>

\* query.rowcount and query.columns
ReadProperty(name) ==
    /\ last' = [op |-> name,
                raised |-> IF query._cursor = NoCursor THEN "MLExportWizardQueryNotExecuted"
                           ELSE IF cursors[query._cursor]._cursor = "None" THEN "AttributeError"
                           ELSE IF name = "columns" /\ cursors[query._cursor]._cursor = "unexecuted"
                                THEN "TypeError"
                           ELSE ""]
    /\ UNCHANGED <<heap, query, cursors, executed, rollupVars, mergeVars, findVars, formulaVars, compileVars>>

Next ==
    \/ \E name \in SetterAttributes : \E i \in DOMAIN SetterValues(name) : Set(name, SetterValues(name)[i])
    \/ \E c \in CursorIds, executes \in BOOLEAN : WithEnter(c, executes)
    \/ \E c \in CursorIds, body_raised \in BOOLEAN : WithExit(c, body_raised)
    \/ \E name \in {"rowcount", "columns"} : ReadProperty(name)

(***************************************************************************)
(* Compiling a dataset group: _resolve_where, ExporterField._sql_dict,     *)
(* ExporterModel._sql_dict, ExporterApp._sql_dict                          *)
(*                                                                         *)
(* For compiling, a field is [kind, table, name, column, type, related,    *)
(* join_only]: type is the class of its Django field and related the name  *)
(* of its related model ('' for none).  A model is [name, table, settings, *)
(* fields], an app [name, settings, models, prepped_models], settings      *)
(* being a dict.  The world w of a compile is [exporters, heap, visited,   *)
(* joined]: the registry of datasets, the heap, and a record of the calls  *)
(* of ExporterModel._sql_dict made (visited: the models, in order; joined: *)
(* the pairs <<joining model, joined model>>).  An operation returns       *)
(* [raised, ..., w]; raised is '' or the name of the exception.  A filter  *)
(* value is an integer, 0 standing for every falsy value, and an operator  *)
(* is a string, '' standing for None.                                      *)
(***************************************************************************)
\* the depth of nested calls at which the interpreter raises RecursionError
RecursionLimit == 4

\* d[k] = v on a dict, d.get(k, default)
DictSet(d, k, v) == [x \in (DOMAIN d) \cup {k} |-> IF x = k THEN v ELSE d[x]]
DictGet(d, k, default) == IF k \in DOMAIN d THEN d[k] ELSE default

\* merge_sql_dicts of two dicts, neither of them None
Merge(d1, d2) ==
    [key \in (DOMAIN Mergers) \cup {"parameters"} |->
        IF key = "parameters" THEN MergeParameters(d1, d2)
        ELSE MergeClause(key, Mergers[key], d1, d2)]

\* the classes of Django fields ExporterField._sql_dict leaves out of the select
\* list, and those ExporterModel._sql_dict follows to another model
RelationTypes == {"ManyToOneRel", "ManyToManyField", "ManyToManyRel", "OneToOneRel", "ForeignKey"}
JoinTypes == {"ManyToOneRel", "ForeignKey", "OneToOneRel"}

ModelField(table, name, col, type, related, join_only) ==
    [kind |-> "ExporterField", table |-> table, name |-> name, column |-> col,
     type |-> type, related |-> related, join_only |-> join_only]

\* ExporterField._sql_dict and ExporterPseudofield._sql_dict; table_name '' is None
Field_sql_dict(self, table_name, layer) ==
    IF self.kind = "ExporterPseudofield" THEN <<>>
    ELSE IF self.join_only \/ self.type \in RelationTypes THEN <<>>
    ELSE LET column_name == column(self, layer)
         IN  [select |-> (IF table_name # "" THEN table_name ELSE self.table) \o "." \o column_name,
              select_no_table |-> column_name]

WhereOperators == {"=", ">=", "<=", "<>", "!="}

\* a mutant that renders the predicate and binds no parameter
_resolve_whereUnbound(operator, field, value, layer) ==
    IF operator = "" \/ value = 0
    THEN [none |-> TRUE, where_bit |-> "", parameters |-> <<>>]
    ELSE [none |-> FALSE,
          where_bit |-> IF operator \in WhereOperators
                        THEN column(field, layer) \o operator \o "%(" \o column(field, layer) \o ")s"
                        ELSE "",
          parameters |-> <<>>]

\* _resolve_where: none tells that it returned (None, None)
_resolve_where(operator, field, value, layer) ==
    IF operator = "" \/ value = 0
    THEN [none |-> TRUE, where_bit |-> "", parameters |-> <<>>]
    ELSE LET field_column == column(field, layer)
         IN  [none |-> FALSE,
              where_bit |-> IF operator \in WhereOperators
                            THEN JoinFilterNone("AND ", <<"", field_column \o operator \o "%("
                                                              \o field_column \o ")s">>)
                            ELSE "",
              parameters |-> (field_column :> value)]

\* ExporterModel._sql_dict, the loop over query.where_before_join[self.name]:
\* every pass overwrites where_bit and adds to sql_dict["parameters"]
RECURSIVE WhereBeforeJoin(_, _, _, _)
WhereBeforeJoin(self, limits, where_bit, sql_dict) ==
    IF limits = <<>> THEN [raised |-> "", where_bit |-> where_bit, sql_dict |-> sql_dict]
    ELSE LET limit == Head(limits)
             fields_by_name == ModelFieldsByName(self)
         IN  IF "field" \notin DOMAIN limit \/ DictGet(limit, "field", "") \notin DOMAIN fields_by_name
             THEN [raised |-> "KeyError", where_bit |-> where_bit, sql_dict |-> sql_dict]
             ELSE LET Resolved(r) ==
                          IF r.none
                          THEN [raised |-> "TypeError", where_bit |-> r.where_bit, sql_dict |-> sql_dict]
                          ELSE WhereBeforeJoin(self, Tail(limits), r.where_bit,
                                               DictSet(sql_dict, "parameters",
                                                       DictUnion(DictGet(sql_dict, "parameters", <<>>),
                                                                 r.parameters)))
                  IN  Resolved(_resolve_where(DictGet(limit, "operator", "="),
                                              fields_by_name[limit["field"]],
                                              DictGet(limit, "value", 0), ""))

\* whether query.where_before_join holds filters for the model
HasWhereBeforeJoin(h, q, self) ==
    DictTruthy(h, q._where_before_join) /\ self.name \in DOMAIN h[q._where_before_join.id].v

\* the merge of the fields' dicts into the model's, in declaration order
RECURSIVE MergeFields(_, _, _, _)
MergeFields(sql_dict, fields, table_name, layer) ==
    IF fields = <<>> THEN sql_dict
    ELSE MergeFields(Merge(sql_dict, Field_sql_dict(Head(fields), table_name, layer)),
                     Tail(fields), table_name, layer)

\* position of the model of that name in app.models (app.models_by_name)
ModelNames(app) == {app.models[i].name : i \in DOMAIN app.models}
ModelIndex(app, name) == CHOOSE i \in DOMAIN app.models : app.models[i].name = name

\* a mutant that does not look at the models already prepped
JoinSuppressedIgnoresPrepped(app, self, join_model) ==
    \/ ("dont_link_to" \in DOMAIN self.settings /\ join_model.name \in self.settings["dont_link_to"])
    \/ ("dont_link_to" \in DOMAIN join_model.settings
            /\ self.name \in join_model.settings["dont_link_to"])

\* a mutant that looks at the dont_link_to of the joining model only
JoinSuppressedOneWay(app, self, join_model) ==
    \/ join_model.name \in app.prepped_models
    \/ ("dont_link_to" \in DOMAIN self.settings /\ join_model.name \in self.settings["dont_link_to"])

\* the condition under which the join loop skips a related model
JoinSuppressed(app, self, join_model) ==
    \/ join_model.name \in app.prepped_models
    \/ ("dont_link_to" \in DOMAIN self.settings /\ join_model.name \in self.settings["dont_link_to"])
    \/ ("dont_link_to" \in DOMAIN join_model.settings
            /\ self.name \in join_model.settings["dont_link_to"])

\* the FROM entry of a model
FromEntry(self, table, left_join, join_model, join_using, sql_dict) ==
    LET join_criteria ==
            IF join_model # <<>>
            THEN "ON " \o self.table \o "." \o join_using \o " = "
                 \o join_model[1].table \o "." \o join_using
            ELSE "USING (" \o join_using \o ")"
    IN  IF left_join
        THEN IF join_using # ""
             THEN DictSet(sql_dict, "from", "LEFT JOIN " \o table \o " " \o join_criteria)
             ELSE sql_dict
        ELSE IF join_using # "" THEN DictSet(sql_dict, "from", "JOIN " \o table \o " " \o join_criteria)
        ELSE DictSet(sql_dict, "from", table)

RECURSIVE ExporterModel_sql_dict(_, _, _, _, _, _, _, _, _, _)
RECURSIVE JoinLoop(_, _, _, _, _, _, _, _, _)

\* ExporterModel._sql_dict, the loop over the fields that join other models, from field i on
JoinLoop(w, e, a, m, i, sql_dict, q, layer, depth) ==
    LET app == w.exporters[e].apps[a]
        self == app.models[m]
    IN  IF i > Len(self.fields) THEN [raised |-> "", sql_dict |-> sql_dict, w |-> w]
        ELSE LET field == self.fields[i]
             IN  IF ~(field.type \in JoinTypes /\ field.related \in ModelNames(app))
                 THEN JoinLoop(w, e, a, m, i + 1, sql_dict, q, layer, depth)
                 ELSE LET j == ModelIndex(app, field.related)
                      IN  IF JoinSuppressed(app, self, app.models[j])
                          THEN JoinLoop(w, e, a, m, i + 1, sql_dict, q, layer, depth)
                          ELSE LET Joined(r) ==
                                       IF r.raised # "" THEN r
                                       ELSE JoinLoop(r.w, e, a, m, i + 1, Merge(sql_dict, r.sql_dict),
                                                     q, layer, depth)
                               IN  Joined(ExporterModel_sql_dict(
                                              [w EXCEPT !.joined = Append(@, <<self.name, field.related>>)],
                                              e, a, j, TRUE, <<self>>, column(field, ""), q, layer,
                                              depth + 1))

\* ExporterModel._sql_dict; join_model is <<>> for None or <<the joining model>>,
\* join_using '' for None
ExporterModel_sql_dict(w, e, a, m, left_join, join_model, join_using, q, layer, depth) ==
    LET self == w.exporters[e].apps[a].models[m]
        prepped == [w EXCEPT !.exporters[e].apps[a].prepped_models = @ \cup {self.name},
                             !.visited = Append(@, self.name)]
        Table(where_bit) ==
            IF where_bit # ""
            THEN " (SELECT * FROM " \o self.table \o " WHERE " \o where_bit \o ") AS " \o self.table
            ELSE self.table
        Limited(wb) ==
            IF wb.raised # "" THEN [raised |-> wb.raised, sql_dict |-> wb.sql_dict, w |-> w]
            ELSE JoinLoop(prepped, e, a, m, 1,
                          MergeFields(FromEntry(self, Table(wb.where_bit), left_join, join_model,
                                                join_using, wb.sql_dict),
                                      self.fields, "", layer),
                          q, layer, depth)
    IN  IF depth > RecursionLimit THEN [raised |-> "RecursionError", sql_dict |-> <<>>, w |-> w]
        ELSE Limited(IF HasWhereBeforeJoin(w.heap, q, self)
                     THEN WhereBeforeJoin(self, FiltersFor(w.heap, q._where_before_join, self.name),
                                          "", <<>>)
                     ELSE [raised |-> "", where_bit |-> "", sql_dict |-> <<>>])

\* a mutant that keeps the prepped models of the compile before
ResetPreppedKeeps(app) == app.prepped_models

\* self.prepped_models = set()
ResetPrepped(app) == {}

\* ExporterApp._sql_dict
ExporterApp_sql_dict(w, e, a, q, layer, depth) ==
    LET app == w.exporters[e].apps[a]
        reset == [w EXCEPT !.exporters[e].apps[a].prepped_models = ResetPrepped(app)]
    IN  IF "primary_model" \notin DOMAIN app.settings \/ app.settings["primary_model"] = ""
        THEN [raised |-> "ImproperlyConfigured", sql_dict |-> <<>>, w |-> reset]
        ELSE IF app.settings["primary_model"] \notin ModelNames(app)
        THEN [raised |-> "KeyError", sql_dict |-> <<>>, w |-> reset]
        ELSE ExporterModel_sql_dict(reset, e, a, ModelIndex(app, app.settings["primary_model"]),
                                    FALSE, <<>>, "", q, layer, depth)

(***************************************************************************)
(* Exporter._resolve_source_field and Exporter._resolve_extra_field        *)
(*                                                                         *)
(* A computed column is PyDict(c), c a dict.  The entries whose type the   *)
(* code tests are tagged values: value (None, str or int), source_field    *)
(* (str, dict or list), when and filter (dict or list).  The others are    *)
(* plain: function, field_type, seperator, order, cast and column_name     *)
(* are strings, distinct is a boolean, formula a sequence of characters,   *)
(* case_expression a dict [source_field, operator].  A when is a dict      *)
(* [condition, value, extra_field, else] and a filter item a dict          *)
(* [field, operator, value], their values integers.  A str that names a    *)
(* field carries its parts between the dots, as str.split('.') gives them. *)
(***************************************************************************)
PyDotted(parts) == [t |-> "str", v |-> StrJoin(".", parts), parts |-> parts]

\* str.split(".") of a str value
Split(value) == IF "parts" \in DOMAIN value THEN value.parts ELSE <<value.v>>

\* bool(value) of a tagged value
PyTruthy(value) ==
    IF value.t \in {"None", "absent"} THEN FALSE
    ELSE IF value.t = "str" THEN value.v # ""
    ELSE IF value.t = "int" THEN value.v # 0
    ELSE IF value.t = "bool" THEN value.v
    ELSE IF value.t = "list" THEN value.v # <<>>
    ELSE IF value.t = "dict" THEN DOMAIN value.v # {}
    ELSE TRUE

\* str(n) for a natural number
RECURSIVE IntStr(_)
IntStr(n) ==
    IF n < 10 THEN <<"0", "1", "2", "3", "4", "5", "6", "7", "8", "9">>[n + 1]
    ELSE IntStr(n \div 10) \o IntStr(n % 10)

\* the find_field call of _resolve_source_field for one source field
SourceFieldLookup(self, source_field) ==
    IF source_field.t = "str"
    THEN IF Len(Split(source_field)) = 3
         THEN <<find_field(self, Split(source_field)[1], Split(source_field)[2],
                           <<Split(source_field)[3]>>)>>
         ELSE IF source_field.v # "" /\ source_field.v # "*"
         THEN <<find_field(self, "", "", Split(source_field))>>
         ELSE <<>>
    ELSE IF source_field.t = "dict"
    THEN <<find_field(self, DictGet(source_field.v, "app", ""), DictGet(source_field.v, "model", ""),
                      IF DictGet(source_field.v, "field", "") = "" THEN <<>>
                      ELSE <<source_field.v["field"]>>)>>
    ELSE <<>>

\* the loop over source_fields: the lookups made, up to the first that raises
RECURSIVE SourceFieldLookups(_, _)
SourceFieldLookups(self, source_fields) ==
    IF source_fields = <<>> THEN <<>>
    ELSE LET Found(found_) ==
                 IF found_ # <<>> /\ found_[1].raised # "" THEN found_
                 ELSE found_ \o SourceFieldLookups(self, Tail(source_fields))
         IN  Found(SourceFieldLookup(self, Head(source_fields)))

\* Exporter._resolve_source_field: [raised, none, value]
_resolve_source_field(self, source_field, field_query_layer, operator) ==
    IF ~PyTruthy(source_field) THEN [raised |-> "", none |-> TRUE, value |-> ""]
    ELSE LET Columns(lookups) ==
                 [i \in DOMAIN lookups |-> column(lookups[i].value, field_query_layer)]
             Looked(lookups) ==
                 IF lookups # <<>> /\ lookups[Len(lookups)].raised # ""
                 THEN [raised |-> lookups[Len(lookups)].raised, none |-> TRUE, value |-> ""]
                 ELSE IF Len(lookups) = 1
                 THEN [raised |-> "", none |-> FALSE, value |-> Columns(lookups)[1]]
                 ELSE IF Len(lookups) > 1
                 THEN [raised |-> "", none |-> FALSE,
                       value |-> IF operator = "join" THEN StrJoin(" || ", Columns(lookups))
                                 ELSE "ROW(" \o StrJoin(", ", Columns(lookups)) \o ")"]
                 ELSE [raised |-> "", none |-> TRUE, value |-> ""]
         IN  Looked(SourceFieldLookups(self, IF source_field.t # "list" THEN <<source_field>>
                                             ELSE source_field.v))

\* the outcomes of _resolve_extra_field: [raised, select_bit, parameters, list_parameters, column]
\* list_parameters tells that the parameters returned are the list [], not a dict;
\* column is the column as the call leaves it
ExtraField(select_bit, parameters, col) ==
    [raised |-> "", select_bit |-> select_bit, parameters |-> parameters,
     list_parameters |-> FALSE, column |-> col]
ExtraFieldRaised(raised, col) ==
    [raised |-> raised, select_bit |-> "", parameters |-> <<>>, list_parameters |-> FALSE,
     column |-> col]

\* the return of a column that holds a literal value: the text of the select bit
\* (the str case returns the text between the double quotes as written, braces included)
LiteralSelectBit(value) ==
    IF value.t = "None" THEN "Null"
    ELSE IF value.t = "str" THEN "'{column['value']}'"
    ELSE IF value.t = "bool" THEN (IF value.v THEN "True" ELSE "False")
    ELSE IntStr(value.v)

\* match column.get("function"), the cases sum, count and aggragate
FunctionSelectBit(c, field_column, select_bit) ==
    LET function == DictGet(c, "function", "")
        distinct == IF DictGet(c, "distinct", FALSE) THEN "DISTINCT " ELSE ""
        field_type == DictGet(c, "field_type", "string")
        text == field_type \in {"string", "text"}
        function_name == IF text THEN "STRING_AGG" ELSE IF field_type = "list" THEN "ARRAY_AGG" ELSE ""
        seperator == IF text THEN ", '" \o DictGet(c, "seperator", " ,") \o "'" ELSE ""
        field_cast == IF text THEN "::text" ELSE ""
        order_bit == IF DictGet(c, "order", "") # ""
                     THEN " ORDER BY " \o field_column \o field_cast \o " " \o c["order"]
                     ELSE ""
    IN  IF function = "sum" THEN (IF field_column # "" THEN "SUM(" \o field_column \o ")" ELSE select_bit)
        ELSE IF function = "count"
        THEN (IF field_column # "" THEN "COUNT(" \o distinct \o field_column \o ")" ELSE "COUNT(*)")
        ELSE IF function = "aggragate" /\ field_column # ""
        THEN function_name \o "(" \o distinct \o field_column \o field_cast \o seperator
             \o order_bit \o ")"
        ELSE select_bit

\* column['when'].index(when) for the when at position i: the first equal element
WhenIndex(whens, i) == (CHOOSE j \in 1..i : whens[j] = whens[i] /\ \A k \in 1..(j - 1) : whens[k] # whens[i]) - 1

\* the filter step: every pass of the loop overwrites where_bit and added_parameters
RECURSIVE FilterLoop(_, _, _, _)
FilterLoop(self, items, field_query_layer, result) ==
    IF items = <<>> THEN result
    ELSE LET filter_item == Head(items)
             Found(field) ==
                 IF field.raised # "" THEN [result EXCEPT !.raised = field.raised]
                 ELSE IF {"operator", "value"} \ DOMAIN filter_item # {}
                 THEN [result EXCEPT !.raised = "KeyError"]
                 ELSE FilterLoop(self, Tail(items), field_query_layer,
                                 [raised |-> ""]
                                 @@ _resolve_where(filter_item["operator"], field.value,
                                                   filter_item["value"], field_query_layer))
         IN  Found(IF "field" \in DOMAIN filter_item
                   THEN find_field(self, "", "", <<filter_item["field"]>>)
                   ELSE [raised |-> "KeyError"])

\* if column.get("filter"): ...; gives [raised, select_bit, parameters, filter]
FilterStep(self, c, select_bit, parameters, field_query_layer) ==
    LET filter == DictGet(c, "filter", PyNone)
        listed == IF filter.t # "list" THEN PyList(<<filter.v>>) ELSE filter
        Looped(r) ==
            IF r.raised # ""
            THEN [raised |-> r.raised, select_bit |-> select_bit, parameters |-> parameters,
                  filter |-> listed]
            ELSE IF r.where_bit # ""
            THEN [raised |-> "", select_bit |-> select_bit \o " FILTER (WHERE " \o r.where_bit \o ")",
                  parameters |-> DictUnion(parameters, r.parameters), filter |-> listed]
            ELSE [raised |-> "", select_bit |-> select_bit, parameters |-> parameters,
                  filter |-> listed]
    IN  IF ~PyTruthy(filter)
        THEN [raised |-> "", select_bit |-> select_bit, parameters |-> parameters, filter |-> filter]
        ELSE Looped(FilterLoop(self, listed.v, field_query_layer,
                               [raised |-> "", none |-> FALSE, where_bit |-> "",
                                parameters |-> <<>>]))

RECURSIVE _resolve_extra_field(_, _, _, _)
RECURSIVE WhenLoop(_, _, _, _, _, _, _)

\* case "case": the loop over column.get("when", []), from position i on;
\* gives [raised, select_bit, parameters, whens]
WhenLoop(self, c, whens, i, select_bit, parameters, field_query_layer) ==
    IF i > Len(whens)
    THEN [raised |-> "", select_bit |-> select_bit, parameters |-> parameters, whens |-> whens]
    ELSE LET when == whens[i]
             conditional == DictGet(when, "condition", 0) # 0
             raises(name) == [raised |-> name, select_bit |-> select_bit,
                              parameters |-> parameters, whens |-> whens]
             key == c["column_name"] \o "_" \o IntStr(WhenIndex(whens, i))
             \* after when["extra_field"] was resolved, in the condition or the else branch
             Nested(nested) ==
                 LET kept == [whens EXCEPT ![i] = [when EXCEPT !["extra_field"] = nested.column]]
                     raises_nested(name) == [raised |-> name, select_bit |-> select_bit,
                                             parameters |-> parameters, whens |-> kept]
                 IN  IF nested.raised # "" THEN raises_nested(nested.raised)
                     ELSE IF conditional /\ "column_name" \notin DOMAIN c
                     THEN raises_nested("KeyError")
                     ELSE IF nested.list_parameters THEN raises_nested("TypeError")
                     ELSE IF conditional
                     THEN WhenLoop(self, c, kept, i + 1,
                                   select_bit \o " WHEN %(" \o key \o ")s THEN " \o nested.select_bit,
                                   DictUnion(DictSet(parameters, key, when["condition"]),
                                             nested.parameters),
                                   field_query_layer)
                     ELSE WhenLoop(self, c, kept, i + 1, select_bit \o " ELSE " \o nested.select_bit,
                                   DictUnion(parameters, nested.parameters), field_query_layer)
         IN  IF \/ conditional /\ PyTruthy(DictGet(when, "extra_field", PyNone))
                \/ ~conditional /\ DictGet(when, "else", FALSE) /\ "extra_field" \in DOMAIN when
             THEN Nested(_resolve_extra_field(self, when["extra_field"], "", field_query_layer))
             ELSE IF conditional
             THEN IF "column_name" \notin DOMAIN c THEN raises("KeyError")
                  ELSE IF DictGet(when, "value", 0) # 0
                  THEN WhenLoop(self, c, whens, i + 1,
                                select_bit \o " WHEN %(" \o key \o ")s THEN %(" \o key \o "_value)s",
                                DictUnion(DictSet(parameters, key, when["condition"]),
                                          (key \o "_value") :> when["value"]),
                                field_query_layer)
                  ELSE WhenLoop(self, c, whens, i + 1,
                                select_bit \o " WHEN %(" \o key \o ")s THEN ",
                                DictSet(parameters, key, when["condition"]), field_query_layer)
             ELSE IF DictGet(when, "else", FALSE) THEN raises("KeyError")
             ELSE WhenLoop(self, c, whens, i + 1, select_bit, parameters, field_query_layer)

\* Exporter._resolve_extra_field(column, query_layer, field_query_layer)
_resolve_extra_field(self, col, layer, field_query_layer) ==
    LET c == col.v
        has_formula == DictGet(c, "formula", <<>>) # <<>>
        is_case == DictGet(c, "function", "") = "case"
        when == DictGet(c, "when", PyList(<<>>))
        whens == IF when.t = "dict" THEN <<when.v>> ELSE when.v
        \* after the filter step: the column as the call leaves it, and the alias
        Filtered(c1, filtered) ==
            LET c2 == IF PyTruthy(DictGet(c1, "filter", PyNone))
                      THEN DictSet(c1, "filter", filtered.filter)
                      ELSE c1
            IN  IF filtered.raised # "" THEN ExtraFieldRaised(filtered.raised, PyDict(c2))
                ELSE ExtraField(IF DictGet(c, "column_name", "") # ""
                                THEN filtered.select_bit \o " AS " \o c["column_name"]
                                ELSE filtered.select_bit,
                                filtered.parameters, PyDict(c2))
        Cast(select_bit) == IF DictGet(c, "cast", "") # "" THEN select_bit \o "::" \o c["cast"]
                            ELSE select_bit
        \* after match column.get("function"): the cast and the filter
        Cased(field_column, select_bit, cased) ==
            LET c1 == IF is_case /\ "when" \in DOMAIN c
                      THEN DictSet(c, "when", PyList(cased.whens))
                      ELSE c
            IN  IF is_case /\ cased.raised # "" THEN ExtraFieldRaised(cased.raised, PyDict(c1))
                ELSE Filtered(c1, FilterStep(self, c1,
                                             Cast(IF is_case THEN cased.select_bit \o " END"
                                                  ELSE FunctionSelectBit(c, field_column, select_bit)),
                                             IF is_case THEN cased.parameters ELSE <<>>,
                                             field_query_layer))
        Selected(field_column, select_bit) ==
            Cased(field_column, select_bit,
                  IF is_case
                  THEN WhenLoop(self, c, whens, 1,
                                IF field_column # "" THEN "CASE " \o field_column ELSE select_bit,
                                <<>>, field_query_layer)
                  ELSE [raised |-> "", select_bit |-> "", parameters |-> <<>>, whens |-> whens])
        Formula(source, resolved_) ==
            IF has_formula /\ resolved_.raised # "" THEN ExtraFieldRaised(resolved_.raised, col)
            ELSE Selected(source.value, IF has_formula THEN Text(resolved_.value) ELSE "")
        Sourced(source) ==
            IF source.raised # "" THEN ExtraFieldRaised(source.raised, col)
            ELSE Formula(source, IF has_formula
                                 THEN _resolve_formula(self, c["formula"], field_query_layer)
                                 ELSE ReturnedNone)
    IN  IF "value" \in DOMAIN c /\ c["value"].t \in {"None", "str", "int", "bool"}
        THEN [raised |-> "", select_bit |-> LiteralSelectBit(c["value"]), parameters |-> <<>>,
              list_parameters |-> TRUE, column |-> col]
        ELSE Sourced(IF PyTruthy(DictGet(c, "source_field", PyNone))
                     THEN _resolve_source_field(self, c["source_field"], field_query_layer, "")
                     ELSE IF DOMAIN DictGet(c, "case_expression", <<>>) # {}
                     THEN _resolve_source_field(self,
                                                DictGet(c["case_expression"], "source_field", PyNone),
                                                field_query_layer,
                                                DictGet(c["case_expression"], "operator", ""))
                     ELSE [raised |-> "", none |-> TRUE, value |-> ""])

(***************************************************************************)
(* Exporter.final_sql, Exporter.base_sql and ExporterRollup._sql_dict      *)
(*                                                                         *)
(* The world w is [exporters, heap, visited, joined]: the registry of      *)
(* datasets by name, the heap of the requests' dicts and lists, and two    *)
(* records of the traversal: the models whose _sql_dict ran, in order, and *)
(* the pairs <<joining model, joined model>> the join loop followed.       *)
(* A call gives [raised, sql, parameters, sql_dict, w, query]: sql_dict is  *)
(* the dict of clauses the call built its text from, query the request as  *)
(* the call leaves it.                                                     *)
(***************************************************************************)
Compiled(sql, parameters, sql_dict, w, q) ==
    [raised |-> "", sql |-> sql, parameters |-> parameters, sql_dict |-> sql_dict, w |-> w,
     query |-> q]
CompileRaised(raised, w, q) ==
    [raised |-> raised, sql |-> "", parameters |-> <<>>, sql_dict |-> <<>>, w |-> w, query |-> q]

\* ", ".join(filter(None, (a, b)))
CommaJoin(a, b) == JoinFilterNone(", ", <<a, b>>)

\* a loop over extra columns: each resolved and added to the select list;
\* gives [raised, select, parameters, columns]
RECURSIVE ExtraFieldsLoop(_, _, _, _, _, _, _)
ExtraFieldsLoop(self, columns, i, select, parameters, layer, field_query_layer) ==
    IF i > Len(columns)
    THEN [raised |-> "", select |-> select, parameters |-> parameters, columns |-> columns]
    ELSE LET Resolved(r) ==
                 LET kept == [columns EXCEPT ![i] = r.column]
                 IN  IF r.raised # ""
                     THEN [raised |-> r.raised, select |-> select, parameters |-> parameters,
                           columns |-> kept]
                     ELSE IF r.list_parameters
                     THEN [raised |-> "TypeError", select |-> select, parameters |-> parameters,
                           columns |-> kept]
                     ELSE ExtraFieldsLoop(self, kept, i + 1, CommaJoin(select, r.select_bit),
                                          DictUnion(parameters, r.parameters), layer,
                                          field_query_layer)
         IN  Resolved(_resolve_extra_field(self, columns[i], layer, field_query_layer))

\* find_field for a group_by or order_by item: a str, or a dict [app, model, field]
FindItem(self, item) ==
    IF item.t = "str" THEN find_field(self, "", "", Split(item))
    ELSE find_field(self, DictGet(item.v, "app", ""), DictGet(item.v, "model", ""),
                    IF DictGet(item.v, "field", "") = "" THEN <<>> ELSE <<item.v["field"]>>)

\* a mutant that puts the group column after the select list
GroupBySelectAppends(col, select) == CommaJoin(select, col)

\* the select list once a group column is put in front of it
GroupBySelect(col, select) == CommaJoin(col, select)

\* final_sql, the loop over query.group_by: [raised, select, group_by]
RECURSIVE GroupByLoop(_, _, _, _, _)
GroupByLoop(self, groups, select, group_by, field_query_layer) ==
    IF groups = <<>> THEN [raised |-> "", select |-> select, group_by |-> group_by]
    ELSE LET Found(field) ==
                 IF field.raised # ""
                 THEN [raised |-> field.raised, select |-> select, group_by |-> group_by]
                 ELSE GroupByLoop(self, Tail(groups),
                                  GroupBySelect(column(field.value, field_query_layer), select),
                                  CommaJoin(group_by, column(field.value, field_query_layer)),
                                  field_query_layer)
         IN  Found(FindItem(self, Head(groups)))

\* final_sql, the loop over query.order_by: [raised, order_by]
RECURSIVE OrderByLoop(_, _, _, _)
OrderByLoop(self, order_sets, order_by, field_query_layer) ==
    IF order_sets = <<>> THEN [raised |-> "", order_by |-> order_by]
    ELSE LET order_set == Head(order_sets)
             order == IF order_set.t = "str" THEN "ASC" ELSE DictGet(order_set.v, "order", "ASC")
             explicit_field == order_set.t # "str" /\ "formula" \in DOMAIN order_set.v
             Ordered(raised, field) ==
                 IF raised # "" THEN [raised |-> raised, order_by |-> order_by]
                 ELSE OrderByLoop(self, Tail(order_sets), CommaJoin(order_by, field \o " " \o order),
                                  field_query_layer)
             Formula(formula_) ==
                 Ordered(formula_.raised, IF formula_.none THEN "None" ELSE Text(formula_.value))
             Found(field) == Ordered(field.raised, column(field.value, field_query_layer))
         IN  IF explicit_field
             THEN Formula(_resolve_formula(self, order_set.v["formula"], field_query_layer))
             ELSE Found(FindItem(self, order_set))

\* a mutant that keys the parameter by the column and the operator
WhereParametersByOperator(col, where_item) ==
    IF "value" \in DOMAIN where_item
    THEN (col \o DictGet(where_item, "operator", "=")) :> where_item["value"]
    ELSE <<>>

\* added_parameters of one where item: keyed by the column of the field
WhereParameters(col, where_item) ==
    IF "value" \in DOMAIN where_item THEN col :> where_item["value"] ELSE <<>>

\* final_sql, the loop over query.where: [raised, where, parameters];
\* where_bit is <<>> while no pass has bound it, else <<its text>>
RECURSIVE WhereLoop(_, _, _, _, _, _)
WhereLoop(self, where_items, where_bit, where, parameters, field_query_layer) ==
    IF where_items = <<>> THEN [raised |-> "", where |-> where, parameters |-> parameters]
    ELSE LET where_item == Head(where_items).v
             operator == DictGet(where_item, "operator", "=")
             raises(name) == [raised |-> name, where |-> where, parameters |-> parameters]
             Bit(col) ==
                 IF "value" \in DOMAIN where_item
                 THEN <<col \o " " \o operator \o " %(" \o col \o ")s">>
                 ELSE IF DictGet(where_item, "not_null", FALSE) THEN <<col \o " IS NOT NULL">>
                 ELSE IF DictGet(where_item, "valid", FALSE)
                 THEN <<col \o " IS NOT NULL AND " \o col \o "::TEXT != ''">>
                 ELSE where_bit
             Added(col, bit) ==
                 IF bit = <<>> THEN raises("UnboundLocalError")
                 ELSE WhereLoop(self, Tail(where_items), bit,
                                JoinFilterNone(" AND ", <<where, bit[1]>>),
                                DictUnion(parameters, WhereParameters(col, where_item)),
                                field_query_layer)
             Column(col) == Added(col, Bit(col))
             Found(field) ==
                 IF field.raised # "" THEN raises(field.raised)
                 ELSE Column(column(field.value, field_query_layer))
         IN  IF "field" \notin DOMAIN where_item THEN raises("KeyError")
             ELSE Found(find_field(self, "", "", <<where_item["field"]>>))

\* the rollup's select list gets the name of each extra column of its settings
RECURSIVE RollupExtraNames(_, _)
RollupExtraNames(sql_dict, extra_fields) ==
    IF extra_fields = <<>> THEN [raised |-> "", sql_dict |-> sql_dict]
    ELSE IF "select" \notin DOMAIN sql_dict \/ "column_name" \notin DOMAIN Head(extra_fields).v
    THEN [raised |-> "KeyError", sql_dict |-> sql_dict]
    ELSE RollupExtraNames(DictSet(sql_dict, "select",
                                  CommaJoin(sql_dict["select"], Head(extra_fields).v["column_name"])),
                          Tail(extra_fields))

RECURSIVE final_sql(_, _, _, _, _)
RECURSIVE base_sql(_, _, _, _, _)
RECURSIVE ExporterRollup_sql_dict(_, _, _, _, _, _)
RECURSIVE AppsLoop(_, _, _, _, _, _, _)
RECURSIVE RollupsLoop(_, _, _, _, _, _, _)

\* base_sql, the loop over self.apps, from app a on: [raised, sql_dict, w]
AppsLoop(w, e, a, sql_dict, q, layer, depth) ==
    IF a > Len(w.exporters[e].apps) THEN [raised |-> "", sql_dict |-> sql_dict, w |-> w]
    ELSE LET Added(r) ==
                 IF r.raised # "" THEN r
                 ELSE AppsLoop(r.w, e, a + 1, Merge(sql_dict, r.sql_dict), q, layer, depth)
         IN  Added(ExporterApp_sql_dict(w, e, a, q, layer, depth))

\* base_sql, the loop over self.rollups, from rollup r on: [raised, sql_dict, w]
RollupsLoop(w, e, r, sql_dict, q, layer, depth) ==
    IF r > Len(w.exporters[e].rollups) THEN [raised |-> "", sql_dict |-> sql_dict, w |-> w]
    ELSE LET Added(rolled) ==
                 IF rolled.raised # "" THEN rolled
                 ELSE RollupsLoop(rolled.w, e, r + 1, Merge(sql_dict, rolled.sql_dict), q, layer,
                                  depth)
         IN  Added(ExporterRollup_sql_dict(w, e, r, q, layer, depth))

\* ExporterRollup._sql_dict: [raised, sql_dict, w].  The extra columns of the
\* settings are the very objects the inner request holds, so what the inner
\* compile does to them it does to the settings.
ExporterRollup_sql_dict(w, e, r, q, layer, depth) ==
    LET self == w.exporters[e].rollups[r]
        Named(w1, named) == [raised |-> named.raised, sql_dict |-> named.sql_dict, w |-> w1]
        Left(inner) ==
            IF "extra_field" \in DOMAIN self.settings
            THEN [inner.w EXCEPT !.exporters[e].rollups[r].settings["extra_field"] =
                                      inner.query._extra_field]
            ELSE inner.w
        Inner(inner, w1) ==
            IF inner.raised # "" THEN [raised |-> inner.raised, sql_dict |-> <<>>, w |-> w1]
            ELSE Named(w1, RollupExtraNames(
                               MergeFields([parameters |-> inner.parameters,
                                            from |-> "(" \o inner.sql \o ") AS " \o self.name],
                                           self.fields, self.name, layer),
                               DictGet(self.settings, "extra_field", PyList(<<>>)).v))
        Compile(inner) == Inner(inner, Left(inner))
        Requested(request) ==
            IF request.raised # ""
            THEN [raised |-> request.raised, sql_dict |-> <<>>, w |-> [w EXCEPT !.heap = request.heap]]
            ELSE Compile(final_sql([w EXCEPT !.heap = request.heap], self.exporter, request.query,
                                   "inner", depth + 1))
    IN  Requested(RollupRequest(w.heap, q, self.settings))

\* Exporter.base_sql(query, query_layer)
base_sql(w, e, q, layer, depth) ==
    LET rollup_query_layer == IF layer = "inner" THEN "middle" ELSE "outer"
        field_query_layer == IF layer = "inner" THEN "" ELSE "base"
        Sql(sql_dict) ==
            (IF DictGet(sql_dict, "select", "") # "" THEN "SELECT " \o sql_dict["select"] \o " " ELSE "")
            \o (IF DictGet(sql_dict, "from", "") # "" THEN "FROM " \o sql_dict["from"] \o " " ELSE "")
            \o (IF DictGet(sql_dict, "where", "") # "" THEN "WHERE " \o sql_dict["where"] \o " " ELSE "")
        Built(sql_dict, w1) ==
            IF "parameters" \notin DOMAIN sql_dict THEN CompileRaised("KeyError", w1, q)
            ELSE Compiled(Sql(sql_dict), sql_dict["parameters"], sql_dict, w1, q)
        \* after the loop over the dataset's own extra columns
        Extra(from_rollups, own, extra) ==
            IF extra.raised # ""
            THEN CompileRaised(extra.raised,
                               [from_rollups.w EXCEPT !.exporters[e].settings["extra_field"] =
                                                          extra.columns], q)
            ELSE IF "parameters" \notin DOMAIN from_rollups.sql_dict
            THEN CompileRaised("KeyError",
                               [from_rollups.w EXCEPT !.exporters[e].settings["extra_field"] =
                                                          extra.columns], q)
            ELSE Built(DictSet(DictSet(from_rollups.sql_dict, "select", extra.select),
                               "parameters", extra.parameters),
                       [from_rollups.w EXCEPT !.exporters[e].settings["extra_field"] =
                                                  extra.columns])
        Own(from_rollups, self, own) ==
            IF own = <<>> THEN Built(from_rollups.sql_dict, from_rollups.w)
            ELSE Extra(from_rollups, own,
                       ExtraFieldsLoop(self, own, 1, DictGet(from_rollups.sql_dict, "select", ""),
                                       DictGet(from_rollups.sql_dict, "parameters", <<>>),
                                       layer, field_query_layer))
        Rollups(from_rollups) ==
            IF from_rollups.raised # "" THEN CompileRaised(from_rollups.raised, from_rollups.w, q)
            ELSE Own(from_rollups, from_rollups.w.exporters[e],
                     DictGet(from_rollups.w.exporters[e].settings, "extra_field", <<>>))
        Apps(from_apps) ==
            IF from_apps.raised # "" THEN CompileRaised(from_apps.raised, from_apps.w, q)
            ELSE Rollups(RollupsLoop(from_apps.w, e, 1, from_apps.sql_dict, q, rollup_query_layer,
                                     depth))
    IN  IF depth > RecursionLimit THEN CompileRaised("RecursionError", w, q)
        ELSE Apps(AppsLoop(w, e, 1, <<>>, q, layer, depth))

\* Exporter.final_sql(query, query_layer)
final_sql(w, e, q, layer, depth) ==
    LET self == w.exporters[e]
        field_query_layer == IF layer = "inner" THEN "middle" ELSE ""
        limit == IF PyTruthy(q._limit) THEN IntStr(q._limit.v) ELSE ""
        keys == (IF q._extra_field.v # <<>> \/ q._group_by.v # <<>> THEN {"select"} ELSE {})
                \cup (IF q._group_by.v # <<>> THEN {"group_by"} ELSE {})
                \cup (IF q._order_by.v # <<>> THEN {"order_by"} ELSE {})
                \cup (IF limit # "" THEN {"limit"} ELSE {})
                \cup (IF q._where.v # <<>> THEN {"where"} ELSE {})
        SqlDict(grouped, ordered, filtered) ==
            [key \in keys |->
                IF key = "select" THEN grouped.select
                ELSE IF key = "group_by" THEN grouped.group_by
                ELSE IF key = "order_by" THEN ordered.order_by
                ELSE IF key = "limit" THEN limit
                ELSE filtered.where]
        Sql(sql_dict, base) ==
            (IF DictGet(sql_dict, "select", "") # "" THEN "SELECT " \o sql_dict["select"]
             ELSE "SELECT *")
            \o " FROM (" \o base.sql \o ") AS " \o self.name
            \o (IF DictGet(sql_dict, "where", "") # "" THEN " WHERE " \o sql_dict["where"] ELSE "")
            \o (IF DictGet(sql_dict, "group_by", "") # ""
                THEN " GROUP BY " \o sql_dict["group_by"] ELSE "")
            \o (IF DictGet(sql_dict, "order_by", "") # ""
                THEN " ORDER BY " \o sql_dict["order_by"] ELSE "")
            \o (IF DictGet(sql_dict, "limit", "") # "" THEN " LIMIT " \o sql_dict["limit"] ELSE "")
        Based(q1, sql_dict, filtered, base) ==
            IF base.raised # "" THEN CompileRaised(base.raised, base.w, q1)
            ELSE Compiled(Sql(sql_dict, base), DictUnion(filtered.parameters, base.parameters),
                          sql_dict, base.w, q1)
        Filtered(q1, grouped, ordered, filtered) ==
            IF filtered.raised # "" THEN CompileRaised(filtered.raised, w, q1)
            ELSE Based(q1, SqlDict(grouped, ordered, filtered), filtered,
                       base_sql(w, e, q1, layer, depth))
        Ordered(q1, extra, grouped, ordered) ==
            IF ordered.raised # "" THEN CompileRaised(ordered.raised, w, q1)
            ELSE Filtered(q1, grouped, ordered,
                          WhereLoop(self, q._where.v, <<>>, "", extra.parameters, field_query_layer))
        Grouped(q1, extra, grouped) ==
            IF grouped.raised # "" THEN CompileRaised(grouped.raised, w, q1)
            ELSE Ordered(q1, extra, grouped, OrderByLoop(self, q._order_by.v, "", field_query_layer))
        Extra(q1, extra) ==
            IF extra.raised # "" THEN CompileRaised(extra.raised, w, q1)
            ELSE Grouped(q1, extra,
                         GroupByLoop(self, q._group_by.v, extra.select, "", field_query_layer))
        Resolved(extra) == Extra([q EXCEPT !._extra_field = PyList(extra.columns)], extra)
    IN  IF depth > RecursionLimit THEN CompileRaised("RecursionError", w, q)
        ELSE Resolved(ExtraFieldsLoop(self, q._extra_field.v, 1, "", <<>>, layer, field_query_layer))

(***************************************************************************)
(* setup_exporters and the constructors                                    *)
(*                                                                         *)
(* settings.ML_EXPORT_WIZARD["Exporters"] is a sequence of declarations    *)
(* [name, settings, apps, rollups].  An app declaration is                 *)
(* [name, settings, models], models being the Django models the app gives  *)
(* once include_models and exclude_models are applied: a model is          *)
(* [name, table, settings, fields], its fields those of _meta.get_fields() *)
(* that exclude_fields leaves: [name, column, type, related], type the     *)
(* class of the Django field and related the name of the model it points   *)
(* to ('' for none).  A rollup declaration is [name, exporter, settings],  *)
(* its settings holding group_by and extra_field as lists.                 *)
(***************************************************************************)
\* ExporterModel.__init__ and the ExporterField of each of its fields
ExporterModel(declaration) ==
    [name |-> declaration.name, table |-> declaration.table, settings |-> declaration.settings,
     fields |-> [i \in DOMAIN declaration.fields |->
                    ModelField(declaration.table, declaration.fields[i].name,
                               declaration.fields[i].column, declaration.fields[i].type,
                               declaration.fields[i].related, FALSE)]]

\* ExporterApp.__init__ and the models of the app
ExporterApp(declaration) ==
    [name |-> declaration.name, settings |-> declaration.settings,
     models |-> [i \in DOMAIN declaration.models |-> ExporterModel(declaration.models[i])],
     prepped_models |-> {}]

\* the pseudofields made for a list of extra columns, by name
Pseudofields(parent, extra_fields) ==
    [n \in {extra_fields[i].v["column_name"] : i \in DOMAIN extra_fields} |->
        ExporterPseudofield(parent, n)]

\* whether every extra column of the list has a column_name
AllNamed(extra_fields) == \A i \in DOMAIN extra_fields : "column_name" \in DOMAIN extra_fields[i].v

\* Exporter.__init__ and the apps of the declaration: [raised, exporter]
Exporter(declaration) ==
    LET own == DictGet(declaration.settings, "extra_field", <<>>)
    IN  IF ~AllNamed(own) THEN [raised |-> "KeyError"]
        ELSE [raised |-> "",
              exporter |-> [name |-> declaration.name, settings |-> declaration.settings,
                            fields_by_name |-> Pseudofields(declaration.name, own),
                            apps |-> [i \in DOMAIN declaration.apps |-> ExporterApp(declaration.apps[i])],
                            rollups |-> <<>>]]

\* ExporterRollup.__init__, the loop over settings.get("group_by", []): [raised, fields]
RECURSIVE RollupGroupFields(_, _)
RollupGroupFields(inner, group_by) ==
    IF group_by = <<>> THEN [raised |-> "", fields |-> <<>>]
    ELSE LET Rest(field_object, rest) ==
                 IF rest.raised # "" THEN rest
                 ELSE [raised |-> "", fields |-> <<field_object.value>> \o rest.fields]
             Found(field_object) ==
                 IF field_object.raised # "" THEN [raised |-> field_object.raised, fields |-> <<>>]
                 ELSE Rest(field_object, RollupGroupFields(inner, Tail(group_by)))
         IN  Found(IF Len(Split(Head(group_by))) = 3
                   THEN find_field(inner, Split(Head(group_by))[1], Split(Head(group_by))[2],
                                   <<Split(Head(group_by))[3]>>)
                   ELSE find_field(inner, "", "", <<Head(group_by).v>>))

\* exporters[exporter]
ExportersLookup(registry, name) ==
    IF name \in DOMAIN registry THEN Returned(registry[name]) ELSE [raised |-> "KeyError"]

\* ExporterRollup.__init__: [raised, rollup]
ExporterRollup(registry, declaration) ==
    LET group_by == DictGet(declaration.settings, "group_by", PyList(<<>>)).v
        extra_fields == DictGet(declaration.settings, "extra_field", PyList(<<>>)).v
        pseudofields == [i \in DOMAIN extra_fields |->
                            ExporterPseudofield(declaration.name, extra_fields[i].v["column_name"])]
        Made(fields) ==
            [raised |-> "",
             rollup |-> [name |-> declaration.name, exporter |-> declaration.exporter,
                         settings |-> declaration.settings, fields |-> fields,
                         fields_by_name |-> [n \in {fields[i].name : i \in DOMAIN fields} |->
                                               fields[CHOOSE i \in DOMAIN fields :
                                                         /\ fields[i].name = n
                                                         /\ \A j \in DOMAIN fields :
                                                               fields[j].name = n => j <= i]]]]
        Grouped(group_fields) ==
            IF group_fields.raised # "" THEN [raised |-> group_fields.raised]
            ELSE IF ~AllNamed(extra_fields) THEN [raised |-> "KeyError"]
            ELSE Made(group_fields.fields \o pseudofields)
        Found(inner) ==
            IF inner.raised # "" THEN [raised |-> inner.raised]
            ELSE Grouped(RollupGroupFields(inner.value, group_by))
    IN  Found(ExportersLookup(registry, declaration.exporter))

\* setup_exporters, the loop over exporter.get("rollups", []), from rollup r on;
\* constructing is <<>>, or <<the declaration of the rollup whose constructor raised>>
RECURSIVE SetupRollups(_, _, _)
SetupRollups(registry, declaration, r) ==
    IF r > Len(declaration.rollups)
    THEN [raised |-> "", exporters |-> registry, constructing |-> <<>>]
    ELSE LET Made(made) ==
                 IF made.raised # ""
                 THEN [raised |-> made.raised, exporters |-> registry,
                       constructing |-> <<declaration.rollups[r]>>]
                 ELSE SetupRollups([registry EXCEPT ![declaration.name].rollups =
                                                        Append(@, made.rollup)],
                                   declaration, r + 1)
         IN  Made(ExporterRollup(registry, declaration.rollups[r]))

\* setup_exporters, from declaration i on: [raised, exporters, constructing]
RECURSIVE setup_exporters(_, _, _)
setup_exporters(registry, settings_, i) ==
    IF i > Len(settings_) THEN [raised |-> "", exporters |-> registry, constructing |-> <<>>]
    ELSE LET Rolled(rolled) ==
                 IF rolled.raised # "" THEN rolled
                 ELSE setup_exporters(rolled.exporters, settings_, i + 1)
             Made(made) ==
                 IF made.raised # ""
                 THEN [raised |-> made.raised, exporters |-> registry, constructing |-> <<>>]
                 ELSE Rolled(SetupRollups(DictSet(registry, settings_[i].name, made.exporter),
                                          settings_[i], 1))
         IN  Made(Exporter(settings_[i]))

(***************************************************************************)
(* Declarations and requests drawn for setup_exporters and final_sql       *)
(***************************************************************************)
NoSettings == [k \in {} |-> 0]

DjangoField(name, col, type, related) ==
    [name |-> name, column |-> col, type |-> type, related |-> related]

\* the relation field of model i towards model j: a ForeignKey from the lower
\* to the higher, and the reverse relation Django adds on the other side
RelationField(i, j) ==
    DjangoField("to_" \o TableOrder[j], "link_" \o TableOrder[IF i < j THEN j ELSE i],
                IF i < j THEN "ForeignKey" ELSE "ManyToOneRel", TableOrder[j])

GraphModels == 1..3
GraphEdges == {<<i, j>> : i, j \in GraphModels} \ {<<i, i>> : i \in GraphModels}

\* the relation fields of model i, in declaration order
RECURSIVE RelationFields(_, _, _)
RelationFields(edges, i, j) ==
    IF j > 3 THEN <<>>
    ELSE (IF <<i, j>> \in edges THEN <<RelationField(i, j)>> ELSE <<>>)
         \o RelationFields(edges, i, j + 1)

\* a model of the graph: a column of its own, and its relations
GraphModel(edges, dont, i) ==
    [name |-> TableOrder[i], table |-> "t" \o IntStr(i),
     settings |-> IF \E p \in dont : p[1] = i
                  THEN [dont_link_to |-> {TableOrder[p[2]] : p \in {x \in dont : x[1] = i}}]
                  ELSE NoSettings,
     fields |-> <<DjangoField(FieldNameList[i], FieldNameList[i], "IntegerField", "")>>
                \o RelationFields(edges, i, 1)]

\* a dataset of one app of three models; edges are the relations between them,
\* dont the pairs <<i, j>> where model i names model j in its dont_link_to
GraphDeclaration(edges, dont, primary) ==
    [name |-> "Graph", settings |-> NoSettings,
     apps |-> << [name |-> "A1", settings |-> [primary_model |-> TableOrder[primary]],
                  models |-> [i \in GraphModels |-> GraphModel(edges, dont, i)]] >>,
     rollups |-> <<>>]

DontLinkTos == {{}} \cup {{p} : p \in {<<1, 2>>, <<2, 1>>, <<1, 3>>, <<3, 2>>}}

\* the dataset of one table orders(id, amount, customer_id)
OrdersDeclaration(own, rollups) ==
    [name |-> "Orders",
     settings |-> IF own = <<>> THEN NoSettings ELSE [extra_field |-> own],
     apps |-> << [name |-> "shop", settings |-> [primary_model |-> "Orders"],
                  models |-> << [name |-> "Orders", table |-> "orders", settings |-> NoSettings,
                                 fields |-> <<DjangoField("id", "id", "AutoField", ""),
                                              DjangoField("amount", "amount", "IntegerField", ""),
                                              DjangoField("customer_id", "customer_id",
                                                          "IntegerField", "")>>] >>] >>,
     rollups |-> rollups]

SumTotal == PyDict([function |-> "sum", source_field |-> PyStr("amount"), column_name |-> "total"])
CountRows == PyDict([function |-> "count", column_name |-> "n"])
FilterItem(field, operator, value) == [field |-> field, operator |-> operator, value |-> value]

\* a dataset whose only source is a rollup of another dataset
RollupDeclaration(name, exporter_, settings) == [name |-> name, exporter |-> exporter_, settings |-> settings]
SummaryDeclaration(exporter_, settings) ==
    [name |-> "Summary", settings |-> NoSettings, apps |-> <<>>,
     rollups |-> <<RollupDeclaration("R1", exporter_, settings)>>]

RollupSettings ==
    <<[group_by |-> PyList(<<PyStr("customer_id")>>), extra_field |-> PyList(<<SumTotal>>)],
      [group_by |-> PyList(<<PyStr("customer_id")>>)],
      [group_by |-> PyList(<<PyStr("zz")>>)],
      [extra_field |-> PyList(<<CountRows>>)]>>

\* the orders dataset and a dataset that rolls up the dataset named inner, in
\* either order, or the orders dataset with a rollup of the dataset named inner
RollupDeclarations(shape, inner, settings) ==
    IF shape = 1 THEN <<OrdersDeclaration(<<>>, <<>>), SummaryDeclaration(inner, settings)>>
    ELSE IF shape = 2 THEN <<SummaryDeclaration(inner, settings), OrdersDeclaration(<<>>, <<>>)>>
    ELSE <<OrdersDeclaration(<<>>, <<RollupDeclaration("R1", inner, settings)>>)>>

\* the extra columns the orders dataset declares of its own
OwnExtraFields == << <<>>, <<CountRows>> >>

\* an extra column that aggregates customer_id under the function name given;
\* order '' is no order
Aggregated(function, field_type, distinct, order) ==
    PyDict([k \in {"function", "source_field", "column_name", "field_type", "seperator", "distinct"}
                   \cup (IF order # "" THEN {"order"} ELSE {}) |->
                IF k = "function" THEN function
                ELSE IF k = "source_field" THEN PyStr("customer_id")
                ELSE IF k = "column_name" THEN "customers"
                ELSE IF k = "field_type" THEN field_type
                ELSE IF k = "seperator" THEN ";"
                ELSE IF k = "distinct" THEN distinct
                ELSE order])

\* the extra columns a request asks of the orders dataset
ExtraFields ==
    <<PyNone, SumTotal, PyList(<<SumTotal, CountRows>>),
      PyDict([function |-> "sum", source_field |-> PyStr("amount"), column_name |-> "total",
              filter |-> PyDict(FilterItem("id", "=", 7))]),
      PyDict([function |-> "sum", source_field |-> PyStr("amount"), column_name |-> "total",
              filter |-> PyList(<<FilterItem("id", ">=", 7), FilterItem("customer_id", "=", 3)>>)]),
      PyDict([value |-> PyInt(5), column_name |-> "five"]),
      PyDict([function |-> "case", column_name |-> "size",
              case_expression |-> [source_field |-> PyStr("amount")],
              when |-> PyDict([condition |-> 1, value |-> 2])]),
      Aggregated("aggregate", "string", TRUE, "DESC"),
      Aggregated("aggragate", "string", TRUE, "DESC"),
      Aggregated("aggragate", "list", FALSE, "")>>

GroupBys == <<PyNone, PyStr("customer_id"), PyList(<<PyStr("customer_id"), PyStr("id")>>), PyStr("zz")>>
Wheres ==
    <<PyNone, PyDict([field |-> "amount", value |-> 5]),
      PyList(<<PyDict([field |-> "amount", operator |-> ">=", value |-> 5]),
               PyDict([field |-> "amount", operator |-> "<=", value |-> 9])>>)>>
\* an order_by and the limit that goes with it
OrderBys == <<PyNone, PyDict([field |-> "id", order |-> "DESC"])>>
Limits == <<PyNone, PyInt(10)>>
WhereBeforeJoins ==
    << <<>>, <<[field |-> "amount", operator |-> ">=", value |-> 1]>>,
       <<[field |-> "amount", operator |-> ">=", value |-> 1],
         [field |-> "customer_id", operator |-> "=", value |-> 3]>> >>

\* the layers final_sql and base_sql are called with; '' is None
CallLayers == {"", "inner", "bad"}

\* a request on dataset name, its where_before_join put in the heap
RequestOn(name, group_by, where_before_join, where, extra_field, order_by, limit) ==
    LET stored == IF where_before_join = <<>> THEN [heap |-> <<>>, ref |-> PyNone]
                  ELSE StoreDict(<<>>, [t \in {"Orders"} |-> where_before_join])
    IN  [heap |-> stored.heap,
         query |-> ExporterQuery(name, PyNone, group_by, stored.ref, where, extra_field, order_by,
                                 limit)]

\* the state before setup_exporters runs
Start(settings_, name, request, layer) ==
    /\ declarations = settings_
    /\ heap = request.heap
    /\ query = request.query
    /\ call = [exporter |-> name, layer |-> layer]

CompileInit ==
    /\ \E layer \in CallLayers :
        \/ \E edges \in SUBSET GraphEdges, dont \in DontLinkTos, primary \in {1, 2} :
            Start(<<GraphDeclaration(edges, dont, primary)>>, "Graph",
                  RequestOn("Graph", PyStr("f"), <<>>, PyNone, PyNone, PyNone, PyNone),
                  layer)
        \/ \E own \in DOMAIN OwnExtraFields, g \in DOMAIN GroupBys, wbj \in DOMAIN WhereBeforeJoins,
              w \in DOMAIN Wheres, x \in DOMAIN ExtraFields, o \in DOMAIN OrderBys :
            Start(<<OrdersDeclaration(OwnExtraFields[own], <<>>)>>, "Orders",
                  RequestOn("Orders", GroupBys[g], WhereBeforeJoins[wbj], Wheres[w], ExtraFields[x],
                            OrderBys[o], Limits[o]),
                  layer)
        \/ \E shape \in 1..3, inner \in {"Orders", "Missing", "Summary"},
              settings_ \in DOMAIN RollupSettings, e \in {"Summary", "Orders"},
              wbj \in DOMAIN WhereBeforeJoins, rw \in DOMAIN WhereBeforeJoins :
            LET request == RequestOn(e, PyNone, WhereBeforeJoins[wbj], PyNone, PyNone, PyNone, PyNone)
                stored == StoreDict(request.heap, [t \in {"Orders"} |-> WhereBeforeJoins[rw]])
            IN  IF WhereBeforeJoins[rw] = <<>>
                THEN Start(RollupDeclarations(shape, inner, RollupSettings[settings_]), e, request,
                           layer)
                ELSE Start(RollupDeclarations(shape, inner,
                                              DictSet(RollupSettings[settings_], "where_before_join",
                                                      stored.ref)),
                           e, [request EXCEPT !.heap = stored.heap], layer)
    /\ exporters = NoSettings
    /\ setup = Unset
    /\ compiled = <<>>
    /\ cursors = <<>>
    /\ last = Unset
    /\ executed = FALSE

\* setup_exporters(), run once when the application starts
SetupExporters ==
    /\ setup = Unset
    /\ LET Ran(r) ==
               /\ exporters' = r.exporters
               /\ setup' = [raised |-> r.raised, constructing |-> r.constructing]
       IN  Ran(setup_exporters(exporters, declarations, 1))
    /\ UNCHANGED <<declarations, call, compiled, mergeVars, findVars, formulaVars, queryVars, rollupVars>>

\* what a call leaves: its outcome, and the record of the traversal it made
Outcome(op, r) ==
    [op |-> op, raised |-> r.raised, sql |-> r.sql, parameters |-> r.parameters,
     sql_dict |-> r.sql_dict, visited |-> r.w.visited, joined |-> r.w.joined]

World == [exporters |-> exporters, heap |-> heap, visited |-> <<>>, joined |-> <<>>]

\* one call of exporters[name].final_sql(query=query, query_layer=layer)
FinalSql ==
    /\ setup # Unset /\ setup.raised = "" /\ call.exporter \in DOMAIN exporters
    /\ Len(compiled) < MaxCompiles
    /\ LET Called(r) ==
               /\ compiled' = Append(compiled, Outcome("final_sql", r))
               /\ exporters' = r.w.exporters
               /\ heap' = r.w.heap
               /\ query' = r.query
       IN  Called(final_sql(World, call.exporter, query, call.layer, 1))
    /\ UNCHANGED <<declarations, setup, call, cursors, last, executed, mergeVars, findVars, formulaVars, rollupVars>>

\* one call of exporters[name].base_sql(query=query, query_layer=layer)
BaseSql ==
    /\ setup # Unset /\ setup.raised = "" /\ call.exporter \in DOMAIN exporters
    /\ Len(compiled) < MaxCompiles
    /\ LET Called(r) ==
               /\ compiled' = Append(compiled, Outcome("base_sql", r))
               /\ exporters' = r.w.exporters
               /\ heap' = r.w.heap
               /\ query' = r.query
       IN  Called(base_sql(World, call.exporter, query, call.layer, 1))
    /\ UNCHANGED <<declarations, setup, call, cursors, last, executed, mergeVars, findVars, formulaVars, rollupVars>>

(***************************************************************************)
(* Exporter.query_count                                                    *)
(***************************************************************************)
\* str.startswith(prefix)
StartsWith(text, prefix) ==
    Len(text) >= Len(prefix) /\ SubSeq(text, 1, Len(prefix)) = prefix

\* str.replace(part, ''): every occurrence of part removed, left to right
RECURSIVE Removed(_, _)
Removed(text, part) ==
    IF Len(text) = 0 THEN text
    ELSE IF StartsWith(text, part) THEN Removed(SubSeq(text, Len(part) + 1, Len(text)), part)
    ELSE SubSeq(text, 1, 1) \o Removed(SubSeq(text, 2, Len(text)), part)

\* the column query_count builds from query.count
CountColumn(count) ==
    IF PyTruthy(count) /\ StartsWith(count.v, "DISTINCT:")
    THEN PyDict([function |-> "count", source_field |-> PyStr(Removed(count.v, "DISTINCT:")),
                 distinct |-> TRUE])
    ELSE PyDict([function |-> "count", source_field |-> count])

\* a mutant that leaves the list alone while the request is marked as executing
AppendCountWhenIdle(q) ==
    IF q._is_executing \/ (q.is_executing.t = "bool" /\ q.is_executing.v) THEN q
    ELSE [q EXCEPT !._extra_field = PyList(Append(@.v, CountColumn(q._count)))]

\* query.extra_field.append({...}): the list the getter returns, changed in place
AppendCount(q) ==
    [q EXCEPT !._extra_field = PyList(Append(@.v, CountColumn(q._count)))]

\* what a call of query_count leaves: the outcome of the compilation of
\* Cursor.__enter__, and what the backend raised after it, '' if nothing
CountOutcome(r, backend_raised) ==
    LET o == Outcome("query_count", r)
    IN  [k \in DOMAIN o \cup {"backend_raised"} |->
            IF k = "backend_raised" THEN backend_raised ELSE o[k]]

\* what the backend does with the statement: it runs, execute raises, or the
\* fetch in the body of the with block raises
Backends == {"returns", "execute raises", "fetch raises"}

\* one call of exporters[name].query_count(query=query): the append, then
\* get_value_dict or get_single_value, that is with query.cursor() as cursor:
\* Cursor.__init__, Cursor.__enter__, the fetch, Cursor.__exit__
QueryCount(backend) ==
    /\ setup # Unset /\ setup.raised = "" /\ call.exporter \in DOMAIN exporters
    /\ Len(compiled) < MaxCompiles
    /\ \E c \in CursorIds :
        /\ cursors[c].phase = "free"
        /\ \A b \in CursorIds : cursors[b].phase = "free" => c <= b
        /\ LET made == CursorInit(AppendCount(query), c)
               Entered(r) ==
                   LET entered == CursorEnter(r.query, made.cursor, backend # "execute raises")
                       exited == CursorExit(entered.query, entered.cursor)
                   IN  /\ exporters' = r.w.exporters
                       /\ heap' = r.w.heap
                       /\ IF r.raised # ""
                          THEN /\ query' = r.query
                               /\ cursors' = Collect([cursors EXCEPT
                                                         ![c] = [made.cursor EXCEPT !.phase = "failed"]],
                                                     r.query)
                               /\ compiled' = Append(compiled, CountOutcome(r, ""))
                               /\ executed' = executed
                          ELSE IF backend = "execute raises"
                          THEN /\ query' = entered.query
                               /\ cursors' = Collect([cursors EXCEPT ![c] = entered.cursor],
                                                     entered.query)
                               /\ compiled' = Append(compiled, CountOutcome(r, "DatabaseError"))
                               /\ executed' = executed
                          ELSE /\ query' = exited.query
                               /\ cursors' = Collect([cursors EXCEPT ![c] = exited.cursor],
                                                     exited.query)
                               /\ compiled' = Append(compiled,
                                                     CountOutcome(r, IF backend = "fetch raises"
                                                                     THEN "body" ELSE ""))
                               /\ executed' = TRUE
           IN  Entered(final_sql(World, made.query._exporter, made.query, "", 1))
    /\ UNCHANGED <<declarations, setup, call, last, mergeVars, findVars, formulaVars, rollupVars>>

\* the values of query.count
Counts == <<PyNone, PyStr("customer_id"), PyStr("DISTINCT:customer_id"), PyStr("zz")>>

\* the state before setup_exporters runs: the orders dataset and a request on
\* it that holds no count column yet
CountInit ==
    /\ \E count \in DOMAIN Counts, g \in 1..2, x \in 1..2, layer \in {"", "inner"} :
        LET request == RequestOn("Orders", GroupBys[g], <<>>, PyNone, ExtraFields[x], PyNone, PyNone)
        IN  Start(<<OrdersDeclaration(<<>>, <<>>)>>, "Orders",
                  [request EXCEPT !.query._count = Counts[count]], layer)
    /\ exporters = NoSettings
    /\ setup = Unset
    /\ compiled = <<>>
    /\ cursors = [c \in CursorIds |-> FreeCursor]
    /\ last = Unset
    /\ executed = FALSE

RollupIdle == rollup = Unset /\ rollup_query = Unset /\ declared = Unset
QueryIdle ==
    heap = <<>> /\ query = Unset /\ cursors = <<>> /\ last = Unset /\ executed = FALSE
CompileIdle ==
    declarations = Unset /\ exporters = Unset /\ setup = Unset /\ call = Unset /\ compiled = <<>>

(***************************************************************************)
(* Specifications                                                          *)
(***************************************************************************)
\* merge_sql_dicts on drawn fragments
InitMerge == MergeInit /\ FindIdle /\ FormulaIdle /\ QueryIdle /\ RollupIdle /\ CompileIdle

SpecMerge == InitMerge /\ [][MergePair \/ MergeTriple]_vars

\* find_field on drawn catalogues
InitFind == FindInit /\ MergeIdle /\ FormulaIdle /\ QueryIdle /\ RollupIdle /\ CompileIdle

SpecFind == InitFind /\ [][FindField]_vars

\* _resolve_formula on drawn formulas
InitFormula == FormulaInit /\ MergeIdle /\ QueryIdle /\ RollupIdle /\ CompileIdle

SpecFormula == InitFormula /\ [][ResolveFormula]_vars

\* a Query Request, its setters and its cursors
Init == QueryInit /\ RollupIdle /\ MergeIdle /\ FindIdle /\ FormulaIdle /\ CompileIdle

Spec == Init /\ [][Next]_vars

\* setup_exporters on drawn settings, then final_sql and base_sql on a drawn request
InitCompile == CompileInit /\ MergeIdle /\ FindIdle /\ FormulaIdle /\ RollupIdle

SpecCompile == InitCompile /\ [][SetupExporters \/ FinalSql \/ BaseSql]_vars

\* query_count and final_sql, called again and again on one request
InitCount == CountInit /\ MergeIdle /\ FindIdle /\ FormulaIdle /\ RollupIdle

SpecCount == InitCount /\ [][SetupExporters \/ FinalSql \/ \E backend \in Backends : QueryCount(backend)]_vars

\* ExporterRollup._sql_dict on drawn requests and rollup settings
InitRollup == RollupInit /\ MergeIdle /\ FindIdle /\ FormulaIdle /\ CompileIdle

SpecRollup == InitRollup /\ [][RollupSqlDict]_vars

(***************************************************************************)
(* Claims about the executing lock of a request (checked under Spec)       *)
(***************************************************************************)
\* the request is marked as executing: the flag Cursor.__enter__ raises, or the
\* flag is_update_safe reads
MarkedExecuting(q) == (q.is_executing.t = "bool" /\ q.is_executing.v) \/ q._is_executing

\* C1: while a cursor of the request is open, every setter call raises QueryExecuting
\* and leaves the request as it was
C1_SettersRefusedWhileCursorOpen ==
    [][(AnyCursorOpen(cursors) /\ last'.op = "set")
          => (last'.raised = QueryExecuting /\ query' = query)]_vars

\* C2: once a cursor scope has ended (normally or by an error of its body) or the
\* opening of a cursor has failed, and no cursor of the request is open, the request
\* is not marked as executing and its setters are accepted
C2_LockReleasedOnEveryExit ==
    (last.op \in {"enter", "exit"} /\ ~AnyCursorOpen(cursors))
        => (~MarkedExecuting(query) /\ is_update_safe(query))

(***************************************************************************)
(* Claims about merge_sql_dicts (checked under SpecMerge)                  *)
(***************************************************************************)
ClauseKeys == {"select", "select_no_table", "from", "where", "group_by", "having"}
CommutingKeys == ClauseKeys \ {"from"}

\* the separator the specification names for a clause key
SeparatorOf(key) ==
    IF key \in {"select", "select_no_table", "group_by"} THEN ", "
    ELSE IF key = "from" THEN " "
    ELSE " AND "

\* a fragment's text for a key, empty when the key is absent
TextOf(d, key) == IF key \in DOMAIN d THEN d[key] ELSE ""

\* the non-empty ones of x then y, joined by the key's separator
JoinedInOrder(key, x, y) ==
    IF x = "" THEN y ELSE IF y = "" THEN x ELSE x \o SeparatorOf(key) \o y

\* a fragment with every absent clause key filled with '' and absent parameters with {}
Completed(d) ==
    [key \in ClauseKeys \cup {"parameters"} |->
        IF key \in DOMAIN d THEN d[key]
        ELSE IF key = "parameters" THEN <<>> ELSE ""]

BothFragments == dict1.val # NoneDict /\ dict2.val # NoneDict

\* C5: for non-null fragments a and b, every clause key of merge_sql_dicts(a, b)
\* holds the non-empty values of a then b joined by that key's separator, and the
\* empty string when neither has a non-empty value.
C5_MergeJoinsNonEmptyValues ==
    (pcMerge # "start" /\ BothFragments) =>
        \A key \in ClauseKeys :
            merged12.val[key] = JoinedInOrder(key, TextOf(dict1.val, key), TextOf(dict2.val, key))

C5_Witness ==
    /\ pcMerge = "merged"
    /\ dict1.val = TestDict1 /\ dict2.val = TestDict2
    /\ merged12.val["where"] = "thing1 = 1 AND thing2 = 2"
    /\ merged12.val["from"] = "test1 as test_table_1 test2 as test_table_2"
    /\ merged12.val["select_no_table"] = ""

\* C6: merge_sql_dicts(None, None) is None; with one operand None the result
\* equals the other operand and is a new object, not the operand itself.
C6_NoneOperandGivesCopy ==
    pcMerge # "start" =>
        /\ (dict1.val = NoneDict /\ dict2.val = NoneDict) => merged12 = NoneObj
        /\ (dict1.val # NoneDict /\ dict2.val = NoneDict) =>
              merged12.val = dict1.val /\ merged12.ref \notin {dict1.ref, dict2.ref}
        /\ (dict1.val = NoneDict /\ dict2.val # NoneDict) =>
              merged12.val = dict2.val /\ merged12.ref \notin {dict1.ref, dict2.ref}

C6_Witness ==
    /\ pcMerge = "merged"
    /\ dict1.val = [select |-> "a"] /\ dict2.val = NoneDict
    /\ merged12 = [ref |-> "new", val |-> [select |-> "a"]]
    /\ merged21 = [ref |-> "new", val |-> [select |-> "a"]]

C8_Original_CommutativeExceptFrom ==
    (pcMerge # "start" /\ BothFragments) =>
        \A key \in CommutingKeys : merged12.val[key] = merged21.val[key]

\* C8 amended: for each of those keys the two orders give equal values whenever at
\* most one operand has a non-empty value or both have the same value; otherwise
\* merge_sql_dicts(a, b) holds a's value, the separator, b's value and
\* merge_sql_dicts(b, a) holds b's value, the separator, a's value.
C8_CommutativeUpToOperandOrder ==
    (pcMerge # "start" /\ BothFragments) =>
        \A key \in CommutingKeys :
            LET x == TextOf(dict1.val, key)
                y == TextOf(dict2.val, key)
            IN  IF x = "" \/ y = "" \/ x = y
                THEN merged12.val[key] = merged21.val[key]
                ELSE /\ merged12.val[key] = x \o SeparatorOf(key) \o y
                     /\ merged21.val[key] = y \o SeparatorOf(key) \o x

C8_Witness ==
    /\ pcMerge = "merged"
    /\ dict1.val = [select |-> "a", where |-> "b"]
    /\ dict2.val = [select |-> "b", where |-> ""]
    /\ merged12.val["select"] = "a, b" /\ merged21.val["select"] = "b, a"
    /\ merged12.val["where"] = "b" /\ merged21.val["where"] = "b"

\* C9: for non-null fragments a, b and c, merging (a with b) with c equals
\* merging a with (b with c), in every clause key and in the parameter map.
C9_MergeAssociative ==
    (pcMerge = "folded" /\ BothFragments /\ dict3.val # NoneDict) =>
        mergedL.val = mergedR.val

C9_Witness ==
    /\ pcMerge = "folded"
    /\ dict1.val = [from |-> "a", parameters |-> [p |-> 1]]
    /\ dict2.val = [from |-> "b", parameters |-> [p |-> 2]]
    /\ dict3.val = [from |-> "a", parameters |-> [p |-> 1, q |-> 2]]
    /\ mergedL.val["from"] = "a b a"
    /\ mergedL.val["parameters"] = [p |-> 1, q |-> 2]
    /\ mergedR.val = mergedL.val

(***************************************************************************)
(* Claims about ExporterRollup._sql_dict (checked under SpecRollup)        *)
(***************************************************************************)
\* the filters a declaration (given by value) holds for a table
DeclaredFilters(d, table) ==
    IF d = PyNone \/ d = Absent THEN <<>>
    ELSE IF table \in DOMAIN d THEN d[table] ELSE <<>>

\* C3: the request a rollup compiles its inner dataset with has empty order_by,
\* empty where and no limit whatever the caller's request holds, has the rollup's
\* own declared group_by and extra_field, and holds for each table the caller's
\* pre-join filters followed by the rollup's declared ones.
C3_RollupInnerRequest ==
    rollup_query # Unset =>
        /\ rollup_query.raised = ""
        /\ rollup_query.query._order_by = PyList(<<>>)
        /\ rollup_query.query._where = PyList(<<>>)
        /\ rollup_query.query._limit = PyNone
        /\ rollup_query.query._group_by =
              (IF "group_by" \in DOMAIN rollup.settings
               THEN rollup.settings["group_by"] ELSE PyList(<<>>))
        /\ rollup_query.query._extra_field =
              (IF "extra_field" \in DOMAIN rollup.settings
               THEN rollup.settings["extra_field"] ELSE PyList(<<>>))
        /\ \A table \in Tables :
              FiltersFor(heap, rollup_query.query._where_before_join, table)
                = DeclaredFilters(declared.caller, table) \o DeclaredFilters(declared.rollup, table)

\* caller and rollup both filter T1, and the caller asked for where, order and limit
C3_Witness ==
    /\ rollup_query # Unset
    /\ query._where # PyList(<<>>) /\ query._order_by # PyList(<<>>) /\ query._limit = PyInt(10)
    /\ query._group_by = PyList(<<PyStr("f")>>)
    /\ DeclaredFilters(declared.caller, "T1") = <<[field |-> "g", value |-> 2]>>
    /\ DeclaredFilters(declared.rollup, "T1") = <<[field |-> "f", value |-> 9]>>
    /\ "group_by" \in DOMAIN rollup.settings
    /\ rollup.settings["group_by"] = PyList(<<PyStr("f"), PyStr("g")>>)
    /\ FiltersFor(heap, rollup_query.query._where_before_join, "T1")
         = <<[field |-> "g", value |-> 2], [field |-> "f", value |-> 9]>>
    /\ rollup_query.query._limit = PyNone

(***************************************************************************)
(* Claims about find_field (checked under SpecFind)                        *)
(***************************************************************************)
\* the places of a dataset that hold a field of the given name: the dataset's own
\* pseudofields, each table of each group, each rollup
Holders(self, name) ==
    {<<"own", self.name, f>> : f \in {self.fields_by_name[n] : n \in DOMAIN self.fields_by_name \cap {name}}}
    \cup {<<"table", self.apps[i].models[j].name, self.apps[i].models[j].fields[k]>> :
            <<i, j, k>> \in {t \in (DOMAIN self.apps) \X (1..2) \X (1..NumNames) :
                                /\ t[2] \in DOMAIN self.apps[t[1]].models
                                /\ t[3] \in DOMAIN self.apps[t[1]].models[t[2]].fields
                                /\ self.apps[t[1]].models[t[2]].fields[t[3]].name = name}}
    \cup {<<"rollup", self.rollups[i].name, self.rollups[i].fields_by_name[name]>> :
            i \in {r \in DOMAIN self.rollups : name \in DOMAIN self.rollups[r].fields_by_name}}

\* whether the group, the table in it and the field in that table all exist
SegmentsExist(self, app, model, name) ==
    \E i \in DOMAIN self.apps :
        /\ self.apps[i].name = app
        /\ \E j \in DOMAIN self.apps[i].models :
              /\ self.apps[i].models[j].name = model
              /\ \E k \in DOMAIN self.apps[i].models[j].fields :
                    self.apps[i].models[j].fields[k].name = name

UnqualifiedLookup == found.app = "" /\ found.model = "" /\ Len(found.field) = 1
QualifiedLookup ==
    \/ found.app # "" /\ found.model # "" /\ Len(found.field) = 1
    \/ found.app = "" /\ found.model = "" /\ Len(found.field) = 3

\* C4: find_field returns the single field that matches or raises FieldNotFound:
\* an unqualified name held by no place or by more than one place raises, a name
\* held by exactly one place returns that field, and a qualified lookup with a
\* missing group, table or field raises.
C4_FindFieldSingleMatchOrError ==
    found # Unset =>
        /\ found.result.raised \in {"", "MLExportWizardFieldNotFound"}
        /\ UnqualifiedLookup =>
              LET holders == Holders(exporter, found.field[1])
              IN  IF Cardinality(holders) = 1
                  THEN /\ found.result.raised = ""
                       /\ \E h \in holders : found.result.value = h[3]
                  ELSE found.result = FieldNotFound
        /\ QualifiedLookup =>
              LET app   == IF found.app = "" THEN found.field[1] ELSE found.app
                  model == IF found.app = "" THEN found.field[2] ELSE found.model
                  name  == IF found.app = "" THEN found.field[3] ELSE found.field[1]
              IN  IF SegmentsExist(exporter, app, model, name)
                  THEN /\ found.result.raised = ""
                       /\ found.result.value.name = name
                  ELSE found.result = FieldNotFound

\* an unqualified name held by two tables of one group is refused
C4_Witness ==
    /\ found # Unset
    /\ found.app = "" /\ found.model = "" /\ found.field = <<"f">>
    /\ Cardinality(Holders(exporter, "f")) = 2
    /\ SegmentsExist(exporter, "A1", "M1", "f") /\ SegmentsExist(exporter, "A1", "M2", "f")
    /\ found.result = FieldNotFound

(***************************************************************************)
(* Claims about _resolve_formula (checked under SpecFormula)               *)
(***************************************************************************)
\* the formula with each quoted token replaced, where it stands, by the column of
\* the field it names, and every other character kept
RECURSIVE ExactSubstitution(_, _, _)
ExactSubstitution(self, s, layer) ==
    LET i == NextQuote(s, 1)
        j == IF i = 0 THEN 0 ELSE NextQuote(s, i + 1)
    IN  IF i = 0 \/ j = 0 THEN s
        ELSE SubSeq(s, 1, i - 1)
             \o <<column(find_field(self, "", "", TokenField(SubSeq(s, i, j))).value, layer)>>
             \o ExactSubstitution(self, SubSeq(s, j + 1, Len(s)), layer)

\* C10: when formula resolution returns a text, that text is the formula with every
\* double-quoted field-name token replaced by the column of the field it names at
\* the given layer, and all text outside the quoted tokens unchanged.
C10_SubstitutionExact ==
    (resolved # Unset /\ resolved.raised = "" /\ "value" \in DOMAIN resolved) =>
        Text(resolved.value) = Text(ExactSubstitution(exporter, formula, query_layer))

\* C11: formula resolution at a layer other than base, middle or unset raises a
\* value error, whatever the formula is (the empty formula included)
C11_OtherLayerRaisesValueError ==
    (resolved # Unset /\ query_layer \notin FormulaLayers) => resolved.raised = "ValueError"

(***************************************************************************)
(* Claims about rowcount and columns (checked under Spec)                  *)
(***************************************************************************)
\* C14: reading rowcount or columns raises QueryNotExecuted exactly when the
\* backend has never executed the request
C14_NotExecutedExactlyBeforeExecute ==
    last.op \in {"rowcount", "columns"} =>
        (last.raised = "MLExportWizardQueryNotExecuted" <=> ~executed)

(***************************************************************************)
(* Claims about setup_exporters, final_sql and base_sql (checked under     *)
(* SpecCompile)                                                            *)
(***************************************************************************)
\* C15: the construction of a rollup whose inner dataset is not registered
\* fails with ExporterNotFound
C15_UnregisteredInnerDatasetNotFound ==
    (/\ setup # Unset
     /\ setup.constructing # <<>>
     /\ setup.constructing[1].exporter \notin DOMAIN exporters)
        => setup.raised = "MLExportWizardExporterNotFound"

\* the layer final_sql resolves the request's columns at
FieldLayerOf(layer) == IF layer = "inner" THEN "middle" ELSE ""

\* the resolved column of each group-by field of the request, in request order
GroupColumns ==
    [i \in DOMAIN query._group_by.v |->
        column(FindItem(exporters[call.exporter], query._group_by.v[i]).value,
               FieldLayerOf(call.layer))]

\* the select bits of the request's extra columns, joined
ExtraSelect ==
    ExtraFieldsLoop(exporters[call.exporter], query._extra_field.v, 1, "", <<>>, call.layer,
                    FieldLayerOf(call.layer)).select

Permuted(seq, p) == [i \in DOMAIN seq |-> seq[p[i]]]

\* the calls of final_sql that returned
Returned_final_sql == {i \in DOMAIN compiled : compiled[i].op = "final_sql" /\ compiled[i].raised = ""}

\* C12: for a request with group-by fields, the GROUP BY clause of final_sql lists
\* the resolved column of each group-by field, and the select list is those
\* columns followed by the extra columns of the request
C12_GroupColumnsBeforeExtraColumns ==
    \A i \in Returned_final_sql :
        query._group_by.v # <<>> =>
            /\ \E p \in Permutations(DOMAIN GroupColumns) :
                    compiled[i].sql_dict["group_by"] = StrJoin(", ", Permuted(GroupColumns, p))
            /\ \E p \in Permutations(DOMAIN GroupColumns) :
                    compiled[i].sql_dict["select"]
                        = CommaJoin(StrJoin(", ", Permuted(GroupColumns, p)), ExtraSelect)

\* a final_sql that returned for two group-by fields and two extra columns
C12_Witness ==
    /\ Returned_final_sql # {}
    /\ Len(query._group_by.v) = 2
    /\ Len(query._extra_field.v) = 2

\* the query layers the code names
KnownLayers == {"", "base", "middle", "inner", "outer"}

\* C16: final_sql and base_sql called with a query layer that is none of the
\* known ones fail with a value error
C16_UnknownLayerRaisesValueError ==
    \A i \in DOMAIN compiled :
        call.layer \notin KnownLayers => compiled[i].raised = "ValueError"

\* the request of the example: sum(amount) named total, grouped by customer_id,
\* on the dataset of the one table orders
OrdersExample ==
    /\ call = [exporter |-> "Orders", layer |-> ""]
    /\ "extra_field" \notin DOMAIN declarations[1].settings
    /\ Len(query._extra_field.v) = 1
    /\ DOMAIN query._extra_field.v[1].v = {"function", "source_field", "column_name"}
    /\ query._extra_field.v[1] = SumTotal
    /\ query._group_by = PyList(<<PyStr("customer_id")>>)
    /\ query._where.v = <<>> /\ query._order_by.v = <<>> /\ query._limit = PyNone
    /\ query._where_before_join = PyNone

\* C13: for the orders example, final_sql returns an outer query selecting
\* customer_id, SUM(amount) AS total grouped by customer_id, around an inner
\* query over orders that selects id, amount and customer_id
C13_OrdersExampleText ==
    \A i \in DOMAIN compiled :
        (OrdersExample /\ compiled[i].op = "final_sql") =>
            /\ compiled[i].raised = ""
            /\ compiled[i].sql
                 = "SELECT customer_id, SUM(amount) AS total FROM "
                   \o "(SELECT orders.id, orders.amount, orders.customer_id FROM orders ) AS Orders"
                   \o " GROUP BY customer_id"
            /\ DOMAIN compiled[i].parameters = {}

\* final_sql has been called on the orders example
C13_Witness == OrdersExample /\ \E i \in DOMAIN compiled : compiled[i].op = "final_sql"

\* the calls made on a dataset that has no rollup: one compile of its groups
SingleCompiles == {i \in DOMAIN compiled : exporters[call.exporter].rollups = <<>>}

NoDuplicates(seq) == \A i, j \in DOMAIN seq : seq[i] = seq[j] => i = j

\* C17: in one compile the join traversal runs on each table at most once, so
\* no table is joined twice, and it ends without exhausting the call stack,
\* whatever the relations between the tables are
C17_EachTableVisitedOnce ==
    \A i \in SingleCompiles :
        /\ NoDuplicates(compiled[i].visited)
        /\ NoDuplicates([k \in DOMAIN compiled[i].joined |-> compiled[i].joined[k][2]])
        /\ compiled[i].raised # "RecursionError"

\* whether model i of the graph has a relation to model j
Related(i, j) ==
    \E k \in DOMAIN exporters["Graph"].apps[1].models[i].fields :
        exporters["Graph"].apps[1].models[i].fields[k].related = TableOrder[j]

\* a compile of a graph in which every pair of tables is related both ways,
\* which joined all three tables
C17_Witness ==
    /\ call.exporter = "Graph"
    /\ compiled # <<>>
    /\ \A i, j \in GraphModels : i # j => Related(i, j)
    /\ Len(compiled[1].visited) = 3

\* C18: when one of two tables names the other in its dont_link_to, the
\* traversal joins neither from the other
C18_SuppressionSymmetric ==
    \A i \in DOMAIN compiled : \A k \in DOMAIN compiled[i].joined :
        \A a \in DOMAIN exporters[call.exporter].apps :
            \A m \in DOMAIN exporters[call.exporter].apps[a].models :
                LET model == exporters[call.exporter].apps[a].models[m]
                    named == DictGet(model.settings, "dont_link_to", {})
                IN  \A other \in named :
                        /\ compiled[i].joined[k] # <<model.name, other>>
                        /\ compiled[i].joined[k] # <<other, model.name>>

\* a compile that starts at T1 while T2 names T1 in its dont_link_to and T1 has a
\* relation to T2, and that joined some table
C18_Witness ==
    /\ call.exporter = "Graph"
    /\ compiled # <<>>
    /\ exporters["Graph"].apps[1].settings["primary_model"] = "T1"
    /\ "T1" \in DictGet(exporters["Graph"].apps[1].models[2].settings, "dont_link_to", {})
    /\ Related(1, 2)
    /\ compiled[1].joined # <<>>

\* two outcomes are the same: the same exception, or the same text and the same
\* parameter map
SameOutcome(a, b) ==
    /\ a.raised = b.raised
    /\ a.sql = b.sql
    /\ DOMAIN a.parameters = DOMAIN b.parameters
    /\ \A k \in DOMAIN a.parameters : a.parameters[k] = b.parameters[k]

\* C19: every call of final_sql on a dataset with a request gives the outcome
\* the call before gave, and so does every call of base_sql
C19_CompilationRepeatable ==
    \A i, j \in DOMAIN compiled :
        compiled[i].op = compiled[j].op => SameOutcome(compiled[i], compiled[j])

\* final_sql has returned twice for a dataset whose tables are joined
C19_Witness ==
    /\ Len(compiled) = 2
    /\ compiled[1].op = "final_sql" /\ compiled[2].op = "final_sql"
    /\ compiled[2].raised = ""
    /\ compiled[2].joined # <<>>

\* the filter predicates the first extra column of the request declares
FilterPredicates ==
    IF query._extra_field.v # <<>> /\ "filter" \in DOMAIN query._extra_field.v[1].v
    THEN listify(query._extra_field.v[1].v["filter"]).v
    ELSE <<>>

\* the column a filter predicate names, as the resolver renders it
FilterColumn(filter_item) ==
    column(find_field(exporters[call.exporter], "", "", <<filter_item["field"]>>).value,
           FieldLayerOf(call.layer))

\* the text of a filter predicate, as _resolve_where renders one
Predicate(filter_item) ==
    FilterColumn(filter_item) \o filter_item["operator"] \o "%(" \o FilterColumn(filter_item) \o ")s"

\* C20: when an extra column declares several filter predicates, its FILTER
\* (WHERE ...) suffix holds every one of them and the parameter map binds the
\* value of every one of them
C20_EveryFilterPredicateKept ==
    \A i \in Returned_final_sql :
        Len(FilterPredicates) > 1 =>
            /\ \A k \in DOMAIN FilterPredicates :
                    /\ FilterColumn(FilterPredicates[k]) \in DOMAIN compiled[i].parameters
                    /\ compiled[i].parameters[FilterColumn(FilterPredicates[k])]
                         = FilterPredicates[k]["value"]
            /\ compiled[i].sql_dict["select"]
                 = CommaJoin(StrJoin(", ", [k \in DOMAIN GroupColumns |->
                                               GroupColumns[Len(GroupColumns) + 1 - k]]),
                             "SUM("
                             \o column(find_field(exporters[call.exporter], "", "", <<"amount">>).value,
                                       FieldLayerOf(call.layer))
                             \o ") FILTER (WHERE "
                             \o StrJoin(" AND ", [k \in DOMAIN FilterPredicates |->
                                                     Predicate(FilterPredicates[k])])
                             \o ") AS total")

\* the pre-join filters the request declares for the table of the orders dataset
PreJoinFilters ==
    IF HasWhereBeforeJoin(heap, query, [name |-> "Orders"])
    THEN FiltersFor(heap, query._where_before_join, "Orders")
    ELSE <<>>

\* the column a pre-join filter names, and the text of its predicate
PreJoinColumn(limit) ==
    column(find_field(exporters["Orders"], "", "", <<limit["field"]>>).value, "")
PreJoinPredicate(limit) ==
    PreJoinColumn(limit) \o limit["operator"] \o "%(" \o PreJoinColumn(limit) \o ")s"

\* the calls of base_sql that returned for the orders dataset without rollups
Returned_base_sql ==
    {i \in DOMAIN compiled : /\ compiled[i].op = "base_sql" /\ compiled[i].raised = ""
                             /\ call.exporter = "Orders"
                             /\ exporters["Orders"].rollups = <<>>}

\* C21: when the request declares pre-join filters for a table, the FROM entry
\* of the table is a derived table whose WHERE holds the predicate of every
\* filter declared, each bound by a parameter of the map; a table without
\* filters is referenced bare
C21_EveryPreJoinFilterApplied ==
    \A i \in Returned_base_sql :
        /\ compiled[i].sql_dict["from"]
             = IF PreJoinFilters = <<>> THEN "orders"
               ELSE " (SELECT * FROM orders WHERE "
                    \o StrJoin(" AND ", [k \in DOMAIN PreJoinFilters |->
                                            PreJoinPredicate(PreJoinFilters[k])])
                    \o ") AS orders"
        /\ \A k \in DOMAIN PreJoinFilters :
                /\ PreJoinColumn(PreJoinFilters[k]) \in DOMAIN compiled[i].parameters
                /\ compiled[i].parameters[PreJoinColumn(PreJoinFilters[k])]
                     = PreJoinFilters[k]["value"]

\* the extra column of a request that asks for one column over a source field
\* under the function name given, <<>> if the request is not such a one
FunctionColumn(function) ==
    IF /\ Len(query._extra_field.v) = 1
       /\ DictGet(query._extra_field.v[1].v, "function", "") = function
       /\ PyTruthy(DictGet(query._extra_field.v[1].v, "source_field", PyNone))
    THEN <<query._extra_field.v[1].v>>
    ELSE <<>>

\* the aggregate call of a column over its source column
AggregateCall(c, source_column) ==
    LET text == DictGet(c, "field_type", "string") \in {"string", "text"}
        cast == IF text THEN "::text" ELSE ""
    IN  (IF text THEN "STRING_AGG" ELSE "ARRAY_AGG")
        \o "(" \o (IF DictGet(c, "distinct", FALSE) THEN "DISTINCT " ELSE "")
        \o source_column \o cast
        \o (IF text THEN ", '" \o c["seperator"] \o "'" ELSE "")
        \o (IF "order" \in DOMAIN c THEN " ORDER BY " \o source_column \o cast \o " " \o c["order"]
            ELSE "")
        \o ")"

\* the select list final_sql is to give for a request of one aggregate column
AggregateSelect(c) ==
    CommaJoin(StrJoin(", ", [k \in DOMAIN GroupColumns |-> GroupColumns[Len(GroupColumns) + 1 - k]]),
              AggregateCall(c, column(find_field(exporters[call.exporter], "", "",
                                                 Split(c["source_field"])).value,
                                      FieldLayerOf(call.layer)))
              \o " AS " \o c["column_name"])

\* C22: an extra column whose function is aggregate and which has a source field
\* resolves to STRING_AGG (field_type string or text, with the separator and a
\* text cast) or ARRAY_AGG (field_type list) over the source column, with
\* DISTINCT and the ORDER BY inside the call when declared
C22_AggregateResolvesToAggCall ==
    \A i \in Returned_final_sql :
        FunctionColumn("aggregate") # <<>> =>
            compiled[i].sql_dict["select"] = AggregateSelect(FunctionColumn("aggregate")[1])

\* the positions of a text where the two characters given stand
Occurrences(text, pair) == {i \in 1..(Len(text) - 1) : SubSeq(text, i, i + 1) = pair}

\* the names of the placeholders %(name)s of a text
Placeholders(text) ==
    {SubSeq(text, i + 2,
            (CHOOSE j \in Occurrences(text, ")s") :
                j > i /\ \A k \in Occurrences(text, ")s") : k > i => j <= k) - 1) :
        i \in {o \in Occurrences(text, "%(") : \E j \in Occurrences(text, ")s") : j > o}}

\* C23: every placeholder %(name)s of the text final_sql returns has a key of
\* that name in the parameter map returned with it
C23_EveryPlaceholderBound ==
    \A i \in Returned_final_sql : Placeholders(compiled[i].sql) \subseteq DOMAIN compiled[i].parameters

\* a final_sql that returned a text with the placeholders of a where predicate,
\* of a pre-join filter and of a CASE clause
C23_Witness ==
    \E i \in Returned_final_sql :
        /\ query._where.v # <<>>
        /\ Len(PreJoinFilters) = 2
        /\ Len(query._extra_field.v) = 1
        /\ DictGet(query._extra_field.v[1].v, "function", "") = "case"
        /\ {"amount", "customer_id", "size_0", "size_0_value"} \subseteq Placeholders(compiled[i].sql)

\* the where predicates of the request that carry a value, and the column and
\* the text final_sql renders each with
ValuePredicates == SelectSeq([k \in DOMAIN query._where.v |-> query._where.v[k].v],
                             LAMBDA item : "value" \in DOMAIN item)
WhereColumn(where_item) ==
    column(find_field(exporters[call.exporter], "", "", <<where_item["field"]>>).value,
           FieldLayerOf(call.layer))
WherePredicate(where_item) ==
    WhereColumn(where_item) \o " " \o DictGet(where_item, "operator", "=")
    \o " %(" \o WhereColumn(where_item) \o ")s"

\* the values the request declares under a rendered column: those of its where
\* predicates and those of its pre-join filters
ValuesUnder(col) ==
    {ValuePredicates[k]["value"] : k \in {n \in DOMAIN ValuePredicates :
                                              WhereColumn(ValuePredicates[n]) = col}}
    \cup {PreJoinFilters[k]["value"] : k \in {n \in DOMAIN PreJoinFilters :
                                                 PreJoinColumn(PreJoinFilters[n]) = col}}

\* C24: final_sql keys the parameter of a where predicate by the column of its
\* field alone: the placeholder of every predicate is named by the column, and
\* the map holds under that name one of the values the request declares for a
\* column so rendered, whether by where predicates or by pre-join filters
C24_WhereParametersKeyedByColumn ==
    \A i \in Returned_final_sql :
        (call.exporter = "Orders" /\ ValuePredicates # <<>>) =>
            /\ compiled[i].sql_dict["where"]
                 = StrJoin(" AND ", [k \in DOMAIN ValuePredicates |->
                                        WherePredicate(ValuePredicates[k])])
            /\ \A k \in DOMAIN ValuePredicates :
                    /\ WhereColumn(ValuePredicates[k]) \in DOMAIN compiled[i].parameters
                    /\ compiled[i].parameters[WhereColumn(ValuePredicates[k])]
                         \in ValuesUnder(WhereColumn(ValuePredicates[k]))

\* a final_sql that returned for two where predicates on one field, a lower and
\* an upper bound: both placeholders have the one name, bound to one value
C24_Witness ==
    \E i \in Returned_final_sql :
        /\ Len(ValuePredicates) = 2
        /\ ValuePredicates[1]["value"] # ValuePredicates[2]["value"]
        /\ WhereColumn(ValuePredicates[1]) = WhereColumn(ValuePredicates[2])
        /\ Placeholders(compiled[i].sql_dict["where"]) = {WhereColumn(ValuePredicates[1])}
        /\ Cardinality(Occurrences(compiled[i].sql_dict["where"], "%(")) = 2

\* the per-table filter lists of a request, read through the heap
RequestFilters(h, q) ==
    [t \in DOMAIN h[q._where_before_join.id].v |-> FiltersFor(h, q._where_before_join, t)]

\* a step in which final_sql returned for a dataset that has rollups
FinalSqlReturnedOnRollups ==
    /\ Len(compiled') = Len(compiled) + 1
    /\ compiled'[Len(compiled')].op = "final_sql"
    /\ compiled'[Len(compiled')].raised = ""
    /\ exporters[call.exporter].rollups # <<>>

\* C25: when final_sql returns for a dataset that has rollups, the request of
\* the caller has the group_by, where, order_by, limit and where_before_join it
\* had before the call, the contents of its per-table filter lists included
C25_CallerRequestUntouched ==
    [][FinalSqlReturnedOnRollups =>
          /\ query'._group_by = query._group_by
          /\ query'._where = query._where
          /\ query'._order_by = query._order_by
          /\ query'._limit = query._limit
          /\ query'._where_before_join = query._where_before_join
          /\ query._where_before_join # PyNone =>
                RequestFilters(heap', query') = RequestFilters(heap, query)]_vars

\* final_sql has returned for a dataset whose rollup declares pre-join filters
\* for a table the request of the caller declares filters for as well
C25_Witness ==
    /\ compiled # <<>>
    /\ compiled[1].op = "final_sql" /\ compiled[1].raised = ""
    /\ exporters[call.exporter].rollups # <<>>
    /\ "where_before_join" \in DOMAIN exporters[call.exporter].rollups[1].settings
    /\ query._where_before_join # PyNone
    /\ FiltersFor(heap, query._where_before_join, "Orders") # <<>>
    /\ FiltersFor(heap, exporters[call.exporter].rollups[1].settings["where_before_join"], "Orders")
         # <<>>

\* C26: final_sql ends without exhausting the call stack for every
\* configuration setup_exporters registers, a dataset with a rollup of itself
\* included
C26_FinalSqlTerminates ==
    \A i \in DOMAIN compiled :
        compiled[i].op = "final_sql" => compiled[i].raised # "RecursionError"

\* C27: when a cursor of a request is closed while another cursor of the
\* request is open, the request refers to a cursor that is still open, so
\* rowcount and columns stay readable until the last cursor is closed
C27_OpenCursorStaysReferenced ==
    (last.op = "exit" /\ AnyCursorOpen(cursors)) =>
        /\ query._cursor # NoCursor
        /\ cursors[query._cursor].phase = "open"

\* the count columns of a list of extra columns
CountColumns(columns) ==
    {k \in DOMAIN columns : DictGet(columns[k].v, "function", "") = "count"}

\* the places of a statement where a COUNT( is selected
CountsSelected(text) == {i \in 1..(Len(text) - 5) : SubSeq(text, i, i + 5) = "COUNT("}

\* the step is a call of query_count
QueryCountCalled ==
    /\ Len(compiled') = Len(compiled) + 1
    /\ compiled'[Len(compiled')].op = "query_count"

\* the step is a compilation of the request that returned a statement
CompileReturned ==
    /\ Len(compiled') = Len(compiled) + 1
    /\ compiled'[Len(compiled')].raised = ""

\* C28: every call of query_count appends one count column to the extra_field
\* list of the request, whatever the executing marks of the request say, no
\* call removes a column, and every compilation that returns selects one
\* COUNT per count column the list holds
C28_CountColumnsAccumulate ==
    [][/\ SubSeq(query'._extra_field.v, 1, Len(query._extra_field.v)) = query._extra_field.v
       /\ QueryCountCalled =>
            /\ Len(query'._extra_field.v) = Len(query._extra_field.v) + 1
            /\ query'._extra_field.v[Len(query'._extra_field.v)] = CountColumn(query._count)
       /\ ~QueryCountCalled => query'._extra_field = query._extra_field
       /\ CompileReturned =>
            Cardinality(CountsSelected(compiled'[Len(compiled')].sql))
                = Cardinality(CountColumns(query'._extra_field.v))]_vars

\* query_count ran twice on one request, the second time on a request the
\* first call left marked as executing, and the statement of the second call
\* selects both count columns
C28_Witness ==
    /\ Len(compiled) = 2
    /\ compiled[1].op = "query_count" /\ compiled[1].backend_raised = "DatabaseError"
    /\ compiled[2].op = "query_count" /\ compiled[2].raised = ""
    /\ Cardinality(CountColumns(query._extra_field.v)) = 2
    /\ Cardinality(CountsSelected(compiled[2].sql)) = 2
====
